---------------------------- MODULE Spec2Model ----------------------------
(***************************************************************************)
(* Model of the customer-support orchestration core.                       *)
(*                                                                         *)
(*   flow = "router" : RouterOrchestrator.run of adk_a2a_system.py, the     *)
(*                     deterministic router that drives the two remote     *)
(*                     specialists through A2ASimpleClient.create_task.     *)
(*   flow = "graph"  : the LangGraph workflow of system_orchestrator.py,    *)
(*                     whose nodes run the agents of agents.py.             *)
(*   flow = "intent" : the first two statements of RouterOrchestrator.run,  *)
(*                     _classify_query and _extract_customer_id, on a       *)
(*                     query composed of keyword phrases.                   *)
(*   flow = "validator" : _parse_json followed by one of the payload        *)
(*                     validators, on one raw specialist text.              *)
(*   flow = "mcp"    : the MCP server of mcp_server.py answering tools/call  *)
(*                     requests over the store of database_utils.py.         *)
(*   flow = "race"   : two request threads of that server inside store       *)
(*                     methods at once, on the one connection and cursor.    *)
(*                                                                         *)
(* Python values are encoded as strings: PyNone, PyTrue, PyFalse stand for  *)
(* None, True, False; every other string is a Python str.  A dict is a      *)
(* function whose DOMAIN is its set of keys.  Optional[int] is a record     *)
(* [has, n].  A query is the sequence of its lower-cased words; a number    *)
(* is a word with n >= 0.                                                   *)
(***************************************************************************)
EXTENDS Integers, Sequences, FiniteSets, TLC

VARIABLES
    flow,            \* which entry point handles the query
    query,           \* the immutable customer query
    pc,              \* router position: start, data, support, done, raised
    scenario,        \* result of _classify_query
    customer_id,     \* result of _extract_customer_id
    dialog_cid,      \* customer_id argument of _support_dialog
    hint,            \* scenario_hint argument of _support_dialog
    context_payload, \* context_payload local of _support_dialog
    task,            \* task of the Data brief being delivered
    attempt,         \* index of the for-loop of the running specialist call
    reminder,        \* reminder local of the running specialist call
    last_text,       \* last_text local of the running specialist call
    data_result,     \* dict the last _call_customer_data returned, until the next delivery
    support_result,  \* dict the last _call_support returned, until the next delivery
    answer,          \* string returned by RouterOrchestrator.run
    dataSent,        \* create_task deliveries to the Data specialist (saturating)
    supportSent,     \* create_task deliveries to the Support specialist (saturating)
    dataResults,     \* completed _call_customer_data calls (saturating)
    supportRounds,   \* completed _call_support calls (saturating)
    node,            \* workflow node about to run: router, data, support, END
    state,           \* the AgentState of the workflow
    toolCalls,       \* the MCP tools each agent has invoked: [agent, tool]
    given,           \* the dict the node passed to its agent's run, as run left it
    calls,           \* the outbound calls the node's agent made, in order
    raw,             \* the raw text handed to _parse_json
    parsed,          \* what _parse_json returned
    role,            \* which validator ran: data, support, support_strict
    validated,       \* what the validator returned
    db,              \* the store behind CustomerServiceDB: customers and tickets
    request,         \* the tools/call message the server handled last
    response,        \* the JSON-RPC response to it
    db_text,         \* the string the store method returned to the tool function
    cursor,          \* self.cursor: what the statement executed last left in it
    worker           \* the two request threads: position, call, string returned

routerVars == <<pc, scenario, customer_id, dialog_cid, hint, context_payload, task,
                attempt, reminder, last_text, data_result, support_result, answer,
                dataSent, supportSent, dataResults, supportRounds>>

graphVars == <<node, state, toolCalls, given, calls>>

validatorVars == <<raw, parsed, role, validated>>

mcpVars == <<db, request, response, db_text, cursor, worker>>

vars == <<flow, query, routerVars, graphVars, validatorVars, mcpVars>>

---------------------------------------------------------------------------
(* Bounds of the model *)

\* Saturation point of the delivery and round counters.
MaxCount == 2

\* Most keyword phrases a composed query is made of.
MaxChunks == 4

\* Most pieces of a raw text.
MaxPieces == 4

\* Most rows of the tickets table.
MaxTickets == 2

\* range(3) of _call_customer_data and of _call_support
DataAttemptsOneMore == 3 + 1
DataAttempts == 3
SupportAttempts == 3

---------------------------------------------------------------------------
(* Python values *)

PyNone == "<None>"
PyTrue == "<True>"
PyFalse == "<False>"

\* bool(v) for the encoded values
Truthy(v) == v \notin {PyNone, PyFalse, ""}

EmptyDict == [k \in {} |-> PyNone]

\* dict.get(key, default)
Get(d, k, default) == IF k \in DOMAIN d THEN d[k] ELSE default

\* Optional[int]
NoInt == [has |-> FALSE, n |-> 0]
SomeInt(k) == [has |-> TRUE, n |-> k]
\* bool(customer_id): None and 0 are falsy
TruthyInt(c) == c.has /\ c.n # 0

Inc(c) == IF c < MaxCount THEN c + 1 ELSE c

---------------------------------------------------------------------------
(* Queries: sequences of lower-cased words *)

\* a plain word, a number (\d+), an e-mail address
W(s) == [w |-> s, n |-> 0 - 1, at |-> FALSE]
N(k) == [w |-> "#", n |-> k, at |-> FALSE]
E(s) == [w |-> s, n |-> 0 - 1, at |-> TRUE]

Words(ss) == [i \in DOMAIN ss |-> W(ss[i])]

\* the keywords that begin / end a word of the queries (besides the word itself)
PrefixesOf(w) ==
    {w} \cup (CASE w = "tickets" -> {"ticket"}
              [] w = "customers" -> {"customer"}
              [] w = "issues" -> {"issue"}
              [] w = "charged" -> {"charge"}
              [] OTHER -> {})
SuffixesOf(w) == {w} \cup (IF w = "paid" THEN {"id"} ELSE {})

\* `phrase in q` (substring test): a one-word phrase occurs inside a word; a longer
\* one ends a word, continues with whole words and begins the last one
Contains(q, phrase) ==
    LET n == Len(phrase) IN
    \E i \in 1..(Len(q) - n + 1) :
        IF n = 1
        THEN phrase[1] \in PrefixesOf(q[i].w) \cup SuffixesOf(q[i].w)
        ELSE /\ phrase[1] \in SuffixesOf(q[i].w)
             /\ phrase[n] \in PrefixesOf(q[i + n - 1].w)
             /\ \A j \in 2..(n - 1) : q[i + j - 1].w = phrase[j]

\* the last statement of _classify_query: return "generic"
DefaultScenarioMissing == PyNone
DefaultScenario == "generic"

\* _classify_query with the account_help and simple_lookup rules in the other order
ClassifyFlipped(q) ==
    IF Contains(q, <<"high-priority">>) \/ Contains(q, <<"premium">>) THEN "premium_report"
    ELSE IF Contains(q, <<"active", "customers">>) /\ Contains(q, <<"open", "tickets">>)
        THEN "active_open"
    ELSE IF Contains(q, <<"update", "my", "email">>) /\ Contains(q, <<"ticket", "history">>)
        THEN "update_email_history"
    ELSE IF (Contains(q, <<"cancel">>) \/ Contains(q, <<"refund">>)
             \/ Contains(q, <<"charged", "twice">>) \/ Contains(q, <<"billing">>))
            /\ Contains(q, <<"customer", "id">>)
        THEN "billing_escalation"
    ELSE IF Contains(q, <<"charged", "twice">>) \/ Contains(q, <<"refund">>)
        THEN "billing_escalation"
    ELSE IF Contains(q, <<"upgrade">>) THEN "upgrade"
    ELSE IF Contains(q, <<"customer", "information">>) THEN "account_help"
    ELSE IF Contains(q, <<"help", "with", "my", "account">>)
            \/ Contains(q, <<"check", "my", "details">>)
        THEN "simple_lookup"
    ELSE IF Contains(q, <<"ticket", "history">>) /\ Contains(q, <<"update">>)
        THEN "multi_intent"
    ELSE DefaultScenario

\* _classify_query: ordered rules over the lower-cased query, first match wins
_classify_query(q) ==
    IF Contains(q, <<"high-priority">>) \/ Contains(q, <<"premium">>) THEN "premium_report"
    ELSE IF Contains(q, <<"active", "customers">>) /\ Contains(q, <<"open", "tickets">>)
        THEN "active_open"
    ELSE IF Contains(q, <<"update", "my", "email">>) /\ Contains(q, <<"ticket", "history">>)
        THEN "update_email_history"
    ELSE IF (Contains(q, <<"cancel">>) \/ Contains(q, <<"refund">>)
             \/ Contains(q, <<"charged", "twice">>) \/ Contains(q, <<"billing">>))
            /\ Contains(q, <<"customer", "id">>)
        THEN "billing_escalation"
    ELSE IF Contains(q, <<"charged", "twice">>) \/ Contains(q, <<"refund">>)
        THEN "billing_escalation"
    ELSE IF Contains(q, <<"upgrade">>) THEN "upgrade"
    ELSE IF Contains(q, <<"help", "with", "my", "account">>)
            \/ Contains(q, <<"check", "my", "details">>)
        THEN "account_help"
    ELSE IF Contains(q, <<"customer", "information">>) THEN "simple_lookup"
    ELSE IF Contains(q, <<"ticket", "history">>) /\ Contains(q, <<"update">>)
        THEN "multi_intent"
    ELSE DefaultScenario

\* _infer_customer_id_from_keywords whose last group matches every query
InferLastGroupAlways(q) ==
    IF Contains(q, <<"charged", "twice">>) \/ Contains(q, <<"double", "charge">>)
       \/ Contains(q, <<"refund">>)
    THEN SomeInt(4)
    ELSE SomeInt(3)

\* _infer_customer_id_from_keywords: keyword_map, first group that matches
_infer_customer_id_from_keywords(q) ==
    IF Contains(q, <<"charged", "twice">>) \/ Contains(q, <<"double", "charge">>)
       \/ Contains(q, <<"refund">>)
    THEN SomeInt(4)
    ELSE IF Contains(q, <<"upgrade", "my", "account">>)
            \/ Contains(q, <<"upgrade", "assistance">>)
    THEN SomeInt(3)
    ELSE NoInt

\* the tail \s*(?:is|:)?\s*(\d+) of the id pattern, tried at word j
IdTail(q, j) ==
    IF j <= Len(q) /\ q[j].n >= 0 THEN SomeInt(q[j].n)
    ELSE IF j + 1 <= Len(q) /\ q[j].w \in {"is", ":"} /\ q[j + 1].n >= 0
        THEN SomeInt(q[j + 1].n)
    ELSE NoInt

\* words whose last letters are "customer" / "id": the pattern is unanchored
EndsWithCustomer(t) == "customer" \in SuffixesOf(t.w)
EndsWithId(t) == "id" \in SuffixesOf(t.w)

\* (?:customer\s*(?:id)?|id)\s*(?:is|:)?\s*(\d+) attempted at word i
IdMatchAt(q, i) ==
    IF EndsWithCustomer(q[i])
    THEN IF i + 1 <= Len(q) /\ q[i + 1].w = "id" /\ IdTail(q, i + 2).has
         THEN IdTail(q, i + 2)
         ELSE IdTail(q, i + 1)
    ELSE IF EndsWithId(q[i]) THEN IdTail(q, i + 1)
    ELSE NoInt

\* _extract_customer_id: re.search takes the leftmost match, else the keyword guess
_extract_customer_id(q) ==
    LET hits == {i \in 1..Len(q) : IdMatchAt(q, i).has} IN
    IF hits # {}
    THEN IdMatchAt(q, CHOOSE i \in hits : \A k \in hits : i <= k)
    ELSE _infer_customer_id_from_keywords(q)

\* _extract_email: the first e-mail address of the query, else None
_extract_email(q) ==
    LET hits == {i \in 1..Len(q) : q[i].at} IN
    IF hits # {} THEN q[CHOOSE i \in hits : \A k \in hits : i <= k].w ELSE PyNone

\* The demo queries of both entry points and the edge cases around them.
Queries == {
    \* "Get customer information for ID 5."
    Words(<<"get", "customer", "information", "for", "id">>) \o <<N(5)>>,
    \* "I'm customer 3 and need help upgrading my account."
    Words(<<"i'm", "customer">>) \o <<N(3)>>
        \o Words(<<"and", "need", "help", "upgrading", "my", "account">>),
    \* "Show me all active customers who have open tickets."
    Words(<<"show", "me", "all", "active", "customers", "who", "have", "open", "tickets">>),
    \* "My customer ID is 4. Update my email to new@email.com and show my ticket history."
    Words(<<"my", "customer", "id", "is">>) \o <<N(4)>>
        \o Words(<<"update", "my", "email", "to">>) \o <<E("new@email.com")>>
        \o Words(<<"and", "show", "my", "ticket", "history">>),
    \* "I've been charged twice, please refund immediately!"
    Words(<<"i've", "been", "charged", "twice", "please", "refund", "immediately">>),
    \* "I need help with my account, customer ID 2. Can you check my details and assist?"
    Words(<<"i", "need", "help", "with", "my", "account", "customer", "id">>) \o <<N(2)>>
        \o Words(<<"can", "you", "check", "my", "details", "and", "assist">>),
    \* "My customer ID is 3. I want to cancel my subscription but I'm having billing issues."
    Words(<<"my", "customer", "id", "is">>) \o <<N(3)>>
        \o Words(<<"i", "want", "to", "cancel", "my", "subscription", "but", "i'm",
                   "having", "billing", "issues">>),
    \* "What's the status of all high-priority tickets for premium customers?"
    Words(<<"what's", "the", "status", "of", "all", "high-priority", "tickets", "for",
            "premium", "customers">>),
    \* "Get customer information for ID 0."
    Words(<<"get", "customer", "information", "for", "id">>) \o <<N(0)>>,
    \* "Get customer information."
    Words(<<"get", "customer", "information">>),
    \* "Update my email to new@email.com and show my ticket history."
    Words(<<"update", "my", "email", "to">>) \o <<E("new@email.com")>>
        \o Words(<<"and", "show", "my", "ticket", "history">>),
    \* "My customer ID is 4. Update my email and show my ticket history."
    Words(<<"my", "customer", "id", "is">>) \o <<N(4)>>
        \o Words(<<"update", "my", "email", "and", "show", "my", "ticket", "history">>),
    \* "Customer 2: show my ticket history and update my phone."
    Words(<<"customer">>) \o <<N(2)>>
        \o Words(<<"show", "my", "ticket", "history", "and", "update", "my", "phone">>),
    \* "Customer 2: show my ticket history, then update my address to a@b.co."
    Words(<<"customer">>) \o <<N(2)>>
        \o Words(<<"show", "my", "ticket", "history", "then", "update", "my", "address",
                   "to">>) \o <<E("a@b.co")>>,
    \* "I want to upgrade my account."
    Words(<<"i", "want", "to", "upgrade", "my", "account">>),
    \* "Please upgrade my plan."
    Words(<<"please", "upgrade", "my", "plan">>),
    \* "I lost my customer id, please cancel my subscription."
    Words(<<"i", "lost", "my", "customer", "id", "please", "cancel", "my", "subscription">>),
    \* "Please cancel my subscription, my customer id: 6."
    Words(<<"please", "cancel", "my", "subscription", "my", "customer", "id", ":">>)
        \o <<N(6)>>,
    \* "Hello, I have a question."
    Words(<<"hello", "i", "have", "a", "question">>),
    \* "My id is 7, I have a question."
    Words(<<"my", "id", "is">>) \o <<N(7)>> \o Words(<<"i", "have", "a", "question">>),
    \* "ID 0: I have a question."
    Words(<<"id">>) \o <<N(0)>> \o Words(<<"i", "have", "a", "question">>),
    \* "I paid 20 for customer id 5, get customer information."
    Words(<<"i", "paid">>) \o <<N(20)>> \o Words(<<"for", "customer", "id">>) \o <<N(5)>>
        \o Words(<<"get", "customer", "information">>),
    \* "Help with my account."
    Words(<<"help", "with", "my", "account">>)
}

\* The phrases the classifier and the extractor look for, and the id phrases, in
\* the order in which a composed query strings them together.
Chunks == <<
    Words(<<"hello">>),
    Words(<<"premium">>),
    Words(<<"high-priority">>),
    Words(<<"active", "customers">>),
    Words(<<"open", "tickets">>),
    Words(<<"update", "my", "email">>),
    Words(<<"ticket", "history">>),
    Words(<<"cancel">>),
    Words(<<"refund">>),
    Words(<<"charged", "twice">>),
    Words(<<"double", "charge">>),
    Words(<<"billing">>),
    Words(<<"upgrade">>),
    Words(<<"upgrade", "my", "account">>),
    Words(<<"upgrade", "assistance">>),
    Words(<<"help", "with", "my", "account">>),
    Words(<<"check", "my", "details">>),
    Words(<<"customer", "information">>),
    Words(<<"update", "my", "phone">>),
    Words(<<"i", "paid">>) \o <<N(20)>>,
    Words(<<"customer">>) \o <<N(3)>>,
    Words(<<"my", "customer", "id">>),
    Words(<<"id">>) \o <<N(5)>>
>>

\* the queries made of at most k chunks, taken from chunk `first` on, in order
RECURSIVE Compositions(_, _)
Compositions(first, k) ==
    IF k = 0 \/ first > Len(Chunks) THEN {<<>>}
    ELSE Compositions(first + 1, k)
         \cup {Chunks[first] \o rest : rest \in Compositions(first + 1, k - 1)}

ComposedQueries == Compositions(1, MaxChunks)

---------------------------------------------------------------------------
(* Specialist output: raw text and the payloads it may encode *)

\* dict with d[k] = v
Put(d, k, v) == [x \in DOMAIN d \cup {k} |-> IF x = k THEN v ELSE d[x]]

\* all dicts whose keys are some of DOMAIN vals, key k taking a value of vals[k]
OptDicts(vals) ==
    UNION { {f \in [K -> UNION {vals[k] : k \in K}] : \A k \in K : f[k] \in vals[k]} :
            K \in SUBSET DOMAIN vals }

\* objects a Support specialist may emit (well-formed or not)
SupportPayloads ==
    OptDicts([requires_context |-> {PyTrue, PyFalse},
              context_type |-> {PyNone, "billing", "orders"},
              customer_response |-> {"reply"},
              notes_for_router |-> {"note"}])

\* objects a Data specialist may emit (well-formed or not)
DataPayloads ==
    OptDicts([handoff_summary |-> {"summary"},
              context_payload |-> {PyNone, "ctxA"},
              recommended_next_agent |-> {"router", "support"}])

\* the words _coerce_support_text scans for that the text of a JSON object carries
\* through its key names and values
KwOfDict(p) ==
    (IF {"requires_context", "context_type", "context_payload"} \cap DOMAIN p # {}
        THEN {"context"} ELSE {})
    \cup (IF Get(p, "context_type", PyNone) = "billing" THEN {"billing"} ELSE {})

\* A raw text is a sequence of pieces:
\*   "OBJ"   the text of one well-formed JSON object, '{' ... '}'
\*   "prose" words without braces or fences
\*   "{" "}" a brace inside prose
\*   "FENCE" a code-fence marker (three backquotes)
\*   "json"  the word json (the language tag of a fence)
\* together with the object its "OBJ" pieces encode and the words of the text that
\* _coerce_support_text scans for.  The empty string has no pieces.
Fence == "FENCE"
Text(toks, p, k) == [toks |-> toks, obj |-> p, kw |-> k]
JsonText(p) == Text(<<"OBJ">>, p, KwOfDict(p))
ProseText(k) == Text(<<"prose">>, EmptyDict, k)
EmptyText == Text(<<>>, EmptyDict, {})

\* not text
IsEmptyText(text) == text.toks = <<>>

ProseWords == {"need", "refund", "ticket"}

SupportTexts ==
    {JsonText(p) : p \in SupportPayloads} \cup {ProseText(k) : k \in SUBSET ProseWords}
    \cup {EmptyText}

DataTexts ==
    {JsonText(p) : p \in DataPayloads} \cup {ProseText({}), EmptyText}

\* objects handed to the validators: any mix of the keys either role uses
ValidatorInputs ==
    OptDicts([requires_context |-> {PyTrue, PyFalse},
              context_type |-> {PyNone, "null", "billing"},
              customer_response |-> {"reply"},
              notes_for_router |-> {"note"},
              handoff_summary |-> {"summary"},
              context_payload |-> {"ctxA"},
              recommended_next_agent |-> {"support"}])

Pieces == {"OBJ", "prose", "{", "}", Fence, "json"}
PieceSeqs == UNION {[1..n -> Pieces] : n \in 0..MaxPieces}
SampleObject == [handoff_summary |-> "summary", context_payload |-> "ctxA"]

\* the raw texts given to _parse_json: every object alone, and one object among
\* prose, braces, fences and json tags
RawTexts ==
    {JsonText(p) : p \in ValidatorInputs}
    \cup {Text(t, IF \E i \in DOMAIN t : t[i] = "OBJ" THEN SampleObject ELSE EmptyDict, {}) :
            t \in PieceSeqs}

\* text.split(<fence>)[1] of a text that starts with a fence
AfterFirstFence(toks) ==
    LET rest == Tail(toks)
        closing == {i \in 1..Len(rest) : rest[i] = Fence}
    IN  IF closing = {} THEN rest
        ELSE SubSeq(rest, 1, (CHOOSE i \in closing : \A k \in closing : i <= k) - 1)

\* the two prefix strippings of _parse_json: the fence, then the json tag
StripFence(toks) ==
    IF toks # <<>> /\ Head(toks) = Fence THEN AfterFirstFence(toks) ELSE toks
StripJsonTag(toks) ==
    IF toks # <<>> /\ Head(toks) = "json" THEN Tail(toks) ELSE toks

\* text[text.find("{") : text.rfind("}") + 1], or the empty text when the
\* condition `start != -1 and end != -1 and end > start` fails
Snippet(toks) ==
    LET opens == {i \in 1..Len(toks) : toks[i] \in {"{", "OBJ"}}
        closes == {i \in 1..Len(toks) : toks[i] \in {"}", "OBJ"}}
        start == CHOOSE i \in opens : \A k \in opens : i <= k
        end == CHOOSE i \in closes : \A k \in closes : i >= k
    IN  IF opens # {} /\ closes # {} /\ end >= start
        THEN SubSeq(toks, start, end) ELSE <<>>

\* json.loads succeeds on exactly one well-formed object
Loads(toks) == toks = <<"OBJ">>

\* _parse_json: {} for empty or unparsable content
_parse_json(content) ==
    IF IsEmptyText(content) THEN EmptyDict
    ELSE LET text == StripJsonTag(StripFence(content.toks)) IN
         IF Loads(text) THEN content.obj
         ELSE IF Loads(Snippet(text)) THEN content.obj
         ELSE EmptyDict

Invalid(reason) == [_invalid |-> reason]

\* data.get("_invalid")
IsInvalid(d) == Truthy(Get(d, "_invalid", PyNone))

\* _validate_customer_payload that sets recommended_next_agent unconditionally
ValidateCustomerOverwritesNext(payload) ==
    IF payload = EmptyDict
    THEN Invalid("Customer Data agent returned non-JSON output.")
    ELSE IF {"handoff_summary", "context_payload"} \ DOMAIN payload # {}
    THEN Invalid("Missing keys from Customer Data payload")
    ELSE Put(payload, "recommended_next_agent", "router")

\* _validate_customer_payload
_validate_customer_payload(payload) ==
    IF payload = EmptyDict
    THEN Invalid("Customer Data agent returned non-JSON output.")
    ELSE IF {"handoff_summary", "context_payload"} \ DOMAIN payload # {}
    THEN Invalid(IF "handoff_summary" \in DOMAIN payload
                 THEN "Missing keys from Customer Data payload: context_payload"
                 ELSE IF "context_payload" \in DOMAIN payload
                 THEN "Missing keys from Customer Data payload: handoff_summary"
                 ELSE "Missing keys from Customer Data payload: context_payload, handoff_summary")
    ELSE IF "recommended_next_agent" \notin DOMAIN payload
    THEN Put(payload, "recommended_next_agent", "router")
    ELSE payload

\* the else-branch without its reset of context_type
SupportFinalBranchKeepsType(payload, strict) ==
    IF "customer_response" \notin DOMAIN payload
    THEN IF strict
         THEN Invalid("requires_context=false but customer_response missing.")
         ELSE Put(payload, "customer_response", "<json.dumps(payload)>")
    ELSE payload

\* the else-branch of _validate_support_payload (requires_context falsy)
SupportFinalBranch(payload, strict) ==
    LET p == IF Get(payload, "context_type", PyNone) # PyNone
                /\ Get(payload, "context_type", PyNone) # "null"
             THEN Put(payload, "context_type", PyNone)
             ELSE payload
    IN  IF "customer_response" \notin DOMAIN p
        THEN IF strict
             THEN Invalid("requires_context=false but customer_response missing.")
             ELSE Put(p, "customer_response", "<json.dumps(payload)>")
        ELSE p

\* the if-branch without its context_type test
SupportContextBranchUnchecked(payload, strict) == payload

\* the if-branch of _validate_support_payload (requires_context truthy)
SupportContextBranch(payload, strict) ==
    IF ~Truthy(Get(payload, "context_type", PyNone))
    THEN IF strict
         THEN Invalid("requires_context=true but context_type missing.")
         ELSE Put(payload, "context_type", "profile")
    ELSE payload

\* _validate_support_payload that refuses a missing requires_context in either mode
ValidateSupportNoDefaultFlag(payload, strict) ==
    IF payload = EmptyDict
    THEN IF strict THEN Invalid("Response was not valid JSON.") ELSE EmptyDict
    ELSE IF "requires_context" \notin DOMAIN payload
    THEN Invalid("Missing requires_context flag.")
    ELSE IF Truthy(payload["requires_context"])
    THEN SupportContextBranch(payload, strict)
    ELSE SupportFinalBranch(payload, strict)

\* _validate_support_payload
_validate_support_payload(payload, strict) ==
    IF payload = EmptyDict
    THEN IF strict THEN Invalid("Response was not valid JSON.") ELSE EmptyDict
    ELSE IF "requires_context" \notin DOMAIN payload /\ strict
    THEN Invalid("Missing requires_context flag.")
    ELSE LET p == IF "requires_context" \notin DOMAIN payload
                  THEN Put(payload, "requires_context", PyTrue)
                  ELSE payload
         IN  IF Truthy(p["requires_context"])
             THEN SupportContextBranch(p, strict)
             ELSE SupportFinalBranch(p, strict)

\* a fallback that names no context type and wraps nothing
CoerceSupportTextBare(text) ==
    IF text.kw \cap {"need", "provide your", "customer id", "billing",
                     "more information", "context", "cannot proceed"} # {}
    THEN [requires_context |-> PyTrue,
          notes_for_router |-> "Support agent asked for additional context but responded outside JSON."]
    ELSE EmptyDict

\* _coerce_support_text
_coerce_support_text(text) ==
    LET needs_context ==
            text.kw \cap {"need", "provide your", "customer id", "billing",
                          "more information", "context", "cannot proceed"} # {}
        context_type ==
            IF text.kw \cap {"billing", "charge", "refund"} # {} THEN "billing"
            ELSE IF text.kw \cap {"ticket", "history"} # {} THEN "history"
            ELSE "profile"
    IN  IF needs_context
        THEN [requires_context |-> PyTrue,
              context_type |-> context_type,
              notes_for_router |-> "Support agent asked for additional context but responded outside JSON."]
        ELSE [requires_context |-> PyFalse,
              context_type |-> PyNone,
              customer_response |-> IF IsEmptyText(text) THEN "Support response unavailable."
                                    ELSE "<raw text>",
              notes_for_router |-> "Support agent returned plain text; router wrapped it in schema."]

\* last_text or "Support response unavailable.": the replacement text has none of
\* the scanned words
SupportFallbackText(text) == IF IsEmptyText(text) THEN EmptyText ELSE text

\* {"raw_text": last_text or "No data returned."}: the last response, whole.  Of
\* its wording the payload keeps the recommended_next_agent it spells out.
RawTextPayload(text) ==
    CASE Get(text.obj, "recommended_next_agent", PyNone) = "router" ->
            "<raw_text recommended_next_agent=router>"
      [] Get(text.obj, "recommended_next_agent", PyNone) = "support" ->
            "<raw_text recommended_next_agent=support>"
      [] OTHER -> "<raw_text>"

\* the fallback dict of _call_customer_data
DataFallback(text) ==
    [handoff_summary |-> "Customer Data agent returned unexpected output.",
     recommended_next_agent |-> "router",
     context_type |-> "general",
     context_payload |-> RawTextPayload(text),
     notes_for_router |-> "Router fallback activated after schema violations."]

\* _format_support_response that emits customer_response whenever the payload has one
FormatSupportResponseReplyFirst(result) ==
    IF result = EmptyDict
    THEN [kind |-> "no_data", body |-> "Support agent returned no data.", note |-> ""]
    ELSE IF "customer_response" \in DOMAIN result
    THEN [kind |-> "final", body |-> result["customer_response"],
          note |-> IF Truthy(Get(result, "notes_for_router", PyNone))
                   THEN result["notes_for_router"] ELSE ""]
    ELSE IF Truthy(Get(result, "notes_for_router", PyNone))
    THEN [kind |-> "notes", body |-> result["notes_for_router"], note |-> ""]
    ELSE [kind |-> "requires_more",
          body |-> Get(result, "context_type", "additional information"),
          note |-> ""]

\* _format_support_response
_format_support_response(result) ==
    IF result = EmptyDict
    THEN [kind |-> "no_data", body |-> "Support agent returned no data.", note |-> ""]
    ELSE IF Truthy(Get(result, "requires_context", PyNone))
    THEN IF Truthy(Get(result, "notes_for_router", PyNone))
         THEN [kind |-> "notes", body |-> result["notes_for_router"], note |-> ""]
         ELSE [kind |-> "requires_more",
               body |-> Get(result, "context_type", "additional information"),
               note |-> ""]
    ELSE [kind |-> "final",
          body |-> Get(result, "customer_response", "<json.dumps(support_result)>"),
          note |-> IF Truthy(Get(result, "notes_for_router", PyNone))
                   THEN result["notes_for_router"] ELSE ""]

Clarification(msg) == [kind |-> "clarify", body |-> msg, note |-> ""]

\* _build_support_prompt: the parts of the brief that vary.  context_block is
\* json.dumps / str of the payload, or the marker when the payload is None.
_build_support_prompt(ctx, scenario_hint) ==
    [context_block |-> IF ctx = PyNone THEN "No structured context yet." ELSE ctx,
     hint |-> IF Truthy(scenario_hint) THEN scenario_hint ELSE "generic",
     extra_guidance |->
        IF scenario_hint = "billing_escalation"
        THEN IF ctx \in {PyNone, "No structured context yet."}
             THEN "request billing context" ELSE "provide the final response"
        ELSE ""]

\* a context request answered with the history fetch whatever was asked for
ContextTaskAlwaysHistory(context_type, cid) ==
    [op |-> "get_customer_history", cid |-> cid, arg |-> ""]

\* the task _request_additional_context builds for the Data specialist
ContextTask(context_type, cid) ==
    IF context_type \in {"billing", "tickets", "history"}
    THEN [op |-> "get_customer_history", cid |-> cid, arg |-> ""]
    ELSE IF context_type = "profile"
    THEN [op |-> "get_customer", cid |-> cid, arg |-> ""]
    ELSE [op |-> "details", cid |-> cid, arg |-> context_type]

---------------------------------------------------------------------------
(* RouterOrchestrator                                                       *)
(* One step runs from one await of create_task to the next.  data_result    *)
(* and support_result are read only in the step that assigns them; they     *)
(* stay for that step's post-state and are dropped by the next delivery.    *)

NoText == EmptyText
NoTask == [op |-> "", cid |-> NoInt, arg |-> ""]
NoAnswer == [kind |-> "", body |-> "", note |-> ""]

RouterInit ==
    /\ pc = "start"
    /\ scenario = ""
    /\ customer_id = NoInt
    /\ dialog_cid = NoInt
    /\ hint = ""
    /\ context_payload = PyNone
    /\ task = NoTask
    /\ attempt = 0
    /\ reminder = ""
    /\ last_text = NoText
    /\ data_result = EmptyDict
    /\ support_result = EmptyDict
    /\ answer = NoAnswer
    /\ dataSent = 0
    /\ supportSent = 0
    /\ dataResults = 0
    /\ supportRounds = 0

\* return <answer> out of RouterOrchestrator.run
Return(ans) ==
    /\ pc' = "done"
    /\ answer' = ans
    /\ attempt' = 0
    /\ reminder' = ""
    /\ last_text' = NoText

\* enter _call_customer_data with a brief for `t`; the handler or the dialog
\* continues with _support_dialog(customer_id=dcid, scenario_hint=h)
CallCustomerData(t, dcid, h) ==
    /\ pc' = "data"
    /\ task' = t
    /\ dialog_cid' = dcid
    /\ hint' = h
    /\ attempt' = 0
    /\ reminder' = ""
    /\ last_text' = NoText
    /\ answer' = answer

\* enter _support_dialog / its next round: _call_support on the current context
CallSupport(ctx, dcid, h) ==
    /\ pc' = "support"
    /\ context_payload' = ctx
    /\ dialog_cid' = dcid
    /\ hint' = h
    /\ attempt' = 0
    /\ reminder' = ""
    /\ last_text' = NoText
    /\ answer' = answer

\* _handle_account_lookup that asks Support before fetching the profile
HandleAccountLookupSupportFirst(cid, scenario_hint) ==
    IF ~TruthyInt(cid)
    THEN /\ Return(Clarification("Please provide a customer ID so I can review the account."))
         /\ UNCHANGED <<dialog_cid, hint, context_payload, task>>
    ELSE /\ CallSupport(PyNone, cid, scenario_hint)
         /\ UNCHANGED task

\* _handle_account_lookup up to its first await
HandleAccountLookup(cid, scenario_hint) ==
    IF ~TruthyInt(cid)
    THEN /\ Return(Clarification("Please provide a customer ID so I can review the account."))
         /\ UNCHANGED <<dialog_cid, hint, context_payload, task>>
    ELSE /\ CallCustomerData([op |-> "get_customer", cid |-> cid, arg |-> ""],
                             cid, scenario_hint)
         /\ UNCHANGED context_payload

\* _handle_update_email_history up to its first await
HandleUpdateEmailHistory(q, cid) ==
    IF ~TruthyInt(cid)
    THEN /\ Return(Clarification("Please provide your customer ID so I can update the account."))
         /\ UNCHANGED <<dialog_cid, hint, context_payload, task>>
    ELSE IF ~Truthy(_extract_email(q))
    THEN /\ Return(Clarification("Please provide the new email address to update."))
         /\ UNCHANGED <<dialog_cid, hint, context_payload, task>>
    ELSE /\ CallCustomerData([op |-> "update_customer+get_customer_history", cid |-> cid,
                              arg |-> _extract_email(q)],
                             cid, "multi_intent")
         /\ UNCHANGED context_payload

\* _handle_premium_report and _handle_active_open up to their first await
HandleReport(op, scenario_hint) ==
    /\ CallCustomerData([op |-> op, cid |-> NoInt, arg |-> ""], NoInt, scenario_hint)
    /\ UNCHANGED context_payload

\* _handle_billing_escalation that fetches the profile first, as _handle_generic does
HandleBillingEscalationFetchFirst(cid) ==
    /\ CallCustomerData([op |-> "get_customer", cid |-> cid, arg |-> ""],
                        cid, "billing_escalation")
    /\ UNCHANGED context_payload

\* _handle_billing_escalation up to its first await
HandleBillingEscalation(cid) ==
    /\ CallSupport(PyNone, cid, "billing_escalation")
    /\ UNCHANGED task

\* _handle_generic up to its first await
HandleGeneric(cid) ==
    IF TruthyInt(cid)
    THEN /\ CallCustomerData([op |-> "profile+ticket_counts", cid |-> cid, arg |-> ""],
                             cid, "general")
         /\ UNCHANGED context_payload
    ELSE /\ CallSupport(PyNone, cid, "general")
         /\ UNCHANGED task

\* RouterOrchestrator.run up to its first await (or its return)
Dispatch(q, sc, cid) ==
    CASE sc = "premium_report" -> HandleReport("premium_report", "premium_report")
      [] sc = "active_open" ->
            HandleReport("list_active_customers_with_open_tickets", "active_open")
      [] sc = "update_email_history" -> HandleUpdateEmailHistory(q, cid)
      [] sc = "billing_escalation" -> HandleBillingEscalation(cid)
      [] sc = "upgrade" -> HandleAccountLookup(cid, "upgrade")
      [] sc = "account_help" -> HandleAccountLookup(cid, "account_help")
      [] sc = "simple_lookup" -> HandleAccountLookup(cid, "profile_lookup")
      [] sc = "multi_intent" -> HandleUpdateEmailHistory(q, cid)
      [] OTHER -> HandleGeneric(cid)

RouterRun ==
    /\ flow = "router"
    /\ pc = "start"
    /\ scenario' = _classify_query(query)
    /\ customer_id' = _extract_customer_id(query)
    /\ Dispatch(query, scenario', customer_id')
    /\ UNCHANGED <<flow, query, validatorVars, mcpVars, data_result, support_result, dataSent, supportSent,
                   dataResults, supportRounds, graphVars>>

\* a caller that drops the returned context_payload
DataReturnsDropsContext(d) ==
    /\ data_result' = d
    /\ dataResults' = Inc(dataResults)
    /\ CallSupport(PyNone, dialog_cid, hint)
    /\ UNCHANGED task

\* _call_customer_data returns d: the caller takes its context_payload into
\* _support_dialog, whose first statement after it is the next _call_support
DataReturns(d) ==
    /\ data_result' = d
    /\ dataResults' = Inc(dataResults)
    /\ CallSupport(Get(d, "context_payload", PyNone), dialog_cid, hint)
    /\ UNCHANGED task

\* the for-loop pass that keeps the reminder it already has
DataAttemptKeepsFirstReminder(text) ==
    LET data == _validate_customer_payload(_parse_json(text)) IN
    /\ dataSent' = Inc(dataSent)
    /\ IF IsInvalid(data)
       THEN IF attempt + 1 < DataAttempts
            THEN /\ attempt' = attempt + 1
                 /\ reminder' = IF reminder = "" THEN data["_invalid"] ELSE reminder
                 /\ last_text' = text
                 /\ UNCHANGED <<pc, dialog_cid, hint, context_payload, task, answer,
                                data_result, dataResults>>
            ELSE DataReturns(DataFallback(text))
       ELSE DataReturns(data)

\* one pass of the for-loop of _call_customer_data: the brief is delivered and the
\* Data specialist answers `text`
DataAttempt(text) ==
    LET data == _validate_customer_payload(_parse_json(text)) IN
    /\ dataSent' = Inc(dataSent)
    /\ IF IsInvalid(data)
       THEN IF attempt + 1 < DataAttempts
            THEN /\ attempt' = attempt + 1
                 /\ reminder' = data["_invalid"]
                 /\ last_text' = text
                 /\ UNCHANGED <<pc, dialog_cid, hint, context_payload, task, answer,
                                data_result, dataResults>>
            ELSE DataReturns(DataFallback(text))
       ELSE DataReturns(data)

\* a Router that ends the run when a valid Data response recommends the router
CustomerDataRespondsObeysNext ==
    /\ flow = "router"
    /\ pc = "data"
    /\ \E text \in DataTexts :
        LET data == _validate_customer_payload(_parse_json(text)) IN
        IF ~IsInvalid(data) /\ text.obj # EmptyDict
           /\ Get(text.obj, "recommended_next_agent", PyNone) = "router"
        THEN /\ dataSent' = Inc(dataSent)
             /\ data_result' = data
             /\ dataResults' = Inc(dataResults)
             /\ Return(Clarification("Data Retrieval Complete"))
             /\ UNCHANGED <<dialog_cid, hint, context_payload, task>>
        ELSE DataAttempt(text)
    /\ support_result' = EmptyDict
    /\ UNCHANGED <<flow, query, validatorVars, mcpVars, scenario, customer_id, supportSent, supportRounds,
                   graphVars>>

CustomerDataResponds ==
    /\ flow = "router"
    /\ pc = "data"
    /\ \E text \in DataTexts : DataAttempt(text)
    /\ support_result' = EmptyDict
    /\ UNCHANGED <<flow, query, validatorVars, mcpVars, scenario, customer_id, supportSent, supportRounds,
                   graphVars>>

\* the loop body without its `if not customer_id` exit
SupportDialogBranchNoIdExit(r) ==
    IF r = EmptyDict \/ ~Truthy(Get(r, "requires_context", PyNone))
       \/ ~Truthy(Get(r, "context_type", PyNone))
    THEN /\ Return(_format_support_response(r))
         /\ UNCHANGED <<dialog_cid, hint, context_payload, task>>
    ELSE /\ CallCustomerData(ContextTask(r["context_type"], dialog_cid), dialog_cid, hint)
         /\ UNCHANGED context_payload

\* the exits of _support_dialog's loop, and its way back for more context
SupportDialogBranch(r) ==
    IF r = EmptyDict
    THEN /\ Return(_format_support_response(EmptyDict))
         /\ UNCHANGED <<dialog_cid, hint, context_payload, task>>
    ELSE IF ~Truthy(Get(r, "requires_context", PyNone))
    THEN /\ Return(_format_support_response(r))
         /\ UNCHANGED <<dialog_cid, hint, context_payload, task>>
    ELSE IF ~TruthyInt(dialog_cid)
    THEN /\ Return(_format_support_response(r))
         /\ UNCHANGED <<dialog_cid, hint, context_payload, task>>
    ELSE IF ~Truthy(Get(r, "context_type", PyNone))
    THEN /\ Return(_format_support_response(r))
         /\ UNCHANGED <<dialog_cid, hint, context_payload, task>>
    ELSE /\ CallCustomerData(ContextTask(r["context_type"], dialog_cid), dialog_cid, hint)
         /\ UNCHANGED context_payload

\* the body of _support_dialog's loop after _call_support returned r
SupportDialogStep(r) ==
    /\ support_result' = r
    /\ data_result' = EmptyDict
    /\ SupportDialogBranch(r)

SupportReturns(r) ==
    /\ supportRounds' = Inc(supportRounds)
    /\ SupportDialogStep(r)

\* one pass of the for-loop of _call_support
SupportAttempt(text) ==
    LET data == _validate_support_payload(_parse_json(text), TRUE) IN
    /\ supportSent' = Inc(supportSent)
    /\ IF IsInvalid(data)
       THEN IF attempt + 1 < SupportAttempts
            THEN /\ attempt' = attempt + 1
                 /\ reminder' = data["_invalid"]
                 /\ last_text' = text
                 /\ data_result' = EmptyDict
                 /\ UNCHANGED <<pc, dialog_cid, hint, context_payload, task, answer,
                                support_result, supportRounds>>
            ELSE SupportReturns(_coerce_support_text(SupportFallbackText(text)))
       ELSE SupportReturns(data)

SupportResponds ==
    /\ flow = "router"
    /\ pc = "support"
    /\ \E text \in SupportTexts : SupportAttempt(text)
    /\ UNCHANGED <<flow, query, validatorVars, mcpVars, scenario, customer_id, dataSent, dataResults, graphVars>>

\* A2ASimpleClient.create_task raises (agent card fetch, connection, timeout):
\* neither _call_customer_data nor any caller up to run has a handler
CustomerDataTransportFails ==
    /\ flow = "router"
    /\ pc = "data"
    /\ pc' = "raised"
    /\ dataSent' = Inc(dataSent)
    /\ UNCHANGED <<flow, query, validatorVars, mcpVars, scenario, customer_id, dialog_cid, hint, context_payload,
                   task, attempt, reminder, last_text, data_result, support_result, answer,
                   supportSent, dataResults, supportRounds, graphVars>>

SupportTransportFails ==
    /\ flow = "router"
    /\ pc = "support"
    /\ pc' = "raised"
    /\ supportSent' = Inc(supportSent)
    /\ UNCHANGED <<flow, query, validatorVars, mcpVars, scenario, customer_id, dialog_cid, hint, context_payload,
                   task, attempt, reminder, last_text, data_result, support_result, answer,
                   dataSent, dataResults, supportRounds, graphVars>>

RouterNext ==
    \/ RouterRun
    \/ CustomerDataResponds
    \/ CustomerDataTransportFails
    \/ SupportResponds
    \/ SupportTransportFails

---------------------------------------------------------------------------
(* agents.py: the agents of the LangGraph workflow *)

AllTools == {"get_customer", "list_customers", "update_customer", "create_ticket",
             "get_customer_history", "get_high_priority_tickets_by_ids",
             "list_active_customers_with_open_tickets"}

\* CustomerDataAgent.__init__: data_tools
data_tools == {"get_customer", "list_customers", "update_customer", "get_customer_history",
               "get_high_priority_tickets_by_ids", "list_active_customers_with_open_tickets"}

\* SupportAgent.__init__: support_tools
support_tools == {"create_ticket", "get_customer_history", "get_customer", "update_customer",
                  "get_high_priority_tickets_by_ids"}

\* a text an agent leaves in last_output: who produced it, what it is, and where
\* the substring "ERROR" occurs in it: nowhere (""), at its start ("prefix"), or
\* only further in ("inside")
Output(src, kind, err) == [src |-> src, kind |-> kind, err |-> err]
NoOutput == Output("", "", "")

\* What the model and the MCP server do during one BaseAgent.run:
\*   first  : the first generate_content returns text, returns None as text,
\*            requests a function call, or raises
\*   fn     : the name carried by the function call
\*   tool   : _invoke_mcp_tool returns or raises
\*   second : the second generate_content returns text, empty text, or raises
\*   err    : where the produced text contains "ERROR"
Behaviours ==
    {[first |-> "text", fn |-> "", tool |-> "", second |-> "", err |-> e] : e \in {"", "prefix", "inside"}}
    \cup {[first |-> f, fn |-> "", tool |-> "", second |-> "", err |-> ""] :
            f \in {"none", "raise"}}
    \cup {[first |-> "call", fn |-> t, tool |-> "raise", second |-> "", err |-> ""] :
            t \in AllTools}
    \cup {[first |-> "call", fn |-> t, tool |-> "ok", second |-> x, err |-> e] :
            t \in AllTools, x \in {"text", "empty"}, e \in {"", "prefix", "inside"}}
    \cup {[first |-> "call", fn |-> t, tool |-> "ok", second |-> "raise", err |-> ""] :
            t \in AllTools}

\* the tool BaseAgent.run invokes under behaviour b: function_call.name, unchecked
\* against the tools the agent was constructed with
InvokedTools(allowed, b) == IF b.first = "call" THEN {b.fn} ELSE {}

\* a run that makes its second model call whatever the tool invocation did
BaseAgentCallsSecondPassAnyway(b) ==
    IF b.first # "call" THEN <<"generate_content">>
    ELSE <<"generate_content", "_invoke_mcp_tool", "generate_content">>

\* BaseAgent.run: the calls it makes to the model and to the MCP server.  A call
\* that raises is the last one.
BaseAgentCalls(b) ==
    IF b.first # "call" THEN <<"generate_content">>
    ELSE IF b.tool = "raise" THEN <<"generate_content", "_invoke_mcp_tool">>
    ELSE <<"generate_content", "_invoke_mcp_tool", "generate_content">>

\* BaseAgent.run: the state it returns
BaseAgentRun(st, name, b) ==
    IF b.first = "raise"
    THEN [st EXCEPT !.error = "Gemini API Error"]
    ELSE IF b.first = "call"
    THEN IF b.tool = "raise"
         THEN [st EXCEPT !.error = "MCP tool failed",
                         !.last_output = Output(name, "tool_error", b.err)]
         ELSE IF b.second = "raise"
         THEN [st EXCEPT !.error = "Gemini API Error"]
         ELSE [st EXCEPT !.last_output =
                            Output(name, IF b.second = "empty" THEN "tool_result" ELSE "text",
                                   b.err),
                         !.agent_name = name]
    ELSE [st EXCEPT !.last_output =
                        IF b.first = "none" THEN Output(name, "none", "")
                        ELSE Output(name, "text", b.err),
                    !.agent_name = name]

\* CustomerDataAgent has no run of its own: BaseAgent.run writes into the dict it
\* was given and returns that same dict
DataAgentRun(st, b) ==
    [returned |-> BaseAgentRun(st, "data", b), given |-> BaseAgentRun(st, "data", b)]

\* SupportAgent.run: mutable_state = dict(state), then BaseAgent.run(mutable_state)
SupportAgentRun(st, b) ==
    [returned |-> BaseAgentRun(st, "support", b), given |-> st]

\* RouterAgent._determine_route
_determine_route(q) ==
    IF Len(q) = 0
    THEN [next_agent |-> "data_agent", task |-> "empty query"]
    ELSE IF Contains(q, <<"active">>) /\ Contains(q, <<"open", "ticket">>)
    THEN [next_agent |-> "data_agent", task |-> "list_active_customers_with_open_tickets"]
    ELSE IF Contains(q, <<"high-priority">>) /\ Contains(q, <<"ticket">>)
    THEN [next_agent |-> "data_agent_then_support", task |-> "high-priority tickets"]
    ELSE IF Contains(q, <<"update">>)
            /\ (Contains(q, <<"history">>) \/ Contains(q, <<"ticket", "history">>))
    THEN [next_agent |-> "data_agent_then_support", task |-> "update then history"]
    ELSE IF Contains(q, <<"charged">>) \/ Contains(q, <<"refund">>)
            \/ Contains(q, <<"billing">>) \/ Contains(q, <<"cancel">>)
    THEN [next_agent |-> "support_agent", task |-> "billing or cancellation"]
    ELSE IF Contains(q, <<"customer", "id">>)
            /\ (Contains(q, <<"help">>) \/ Contains(q, <<"issue">>)
                \/ Contains(q, <<"password">>))
    THEN [next_agent |-> "data_agent_then_support", task |-> "fetch profile"]
    ELSE IF Contains(q, <<"get", "customer">>) \/ Contains(q, <<"customer", "information">>)
            \/ (Contains(q, <<"show">>) /\ Contains(q, <<"customer">>))
    THEN [next_agent |-> "data_agent", task |-> "customer information"]
    ELSE [next_agent |-> "support_agent", task |-> "support-focused response"]

\* RouterAgent.run
RouterAgentRun(st, q) ==
    [st EXCEPT !.next_agent = _determine_route(q).next_agent,
               !.task = _determine_route(q).task,
               !.agent_name = "router",
               !.last_output = Output("router", "decision", "")]

---------------------------------------------------------------------------
(* system_orchestrator.py: the workflow *)

\* run_scenario: (?:customer\s*id|id)\D*(\d+), the first number after the leftmost
\* word ending in "id"
ScenarioCustomerId(q) ==
    LET ids == {i \in 1..Len(q) : EndsWithId(q[i])} IN
    IF ids = {} THEN NoInt
    ELSE LET i0 == CHOOSE i \in ids : \A k \in ids : i <= k
             nums == {j \in (i0 + 1)..Len(q) : q[j].n >= 0}
         IN  IF nums = {} THEN NoInt
             ELSE SomeInt(q[CHOOSE j \in nums : \A k \in nums : j <= k].n)

NoFinal == [prefix |-> "", body |-> NoOutput]

\* run_scenario: initial_state
InitialState(q) ==
    [task |-> "Analyze query intent and route.",
     next_agent |-> "",
     final_answer |-> NoFinal,
     agent_name |-> "",
     last_output |-> NoOutput,
     error |-> "",
     customer_id |-> ScenarioCustomerId(q),
     history_customer_id |-> NoInt]

\* a routing function that sends support_agent to the data node
RouteAgentsSupportToData(st) ==
    IF st.next_agent \in {"data_agent", "data_agent_then_support", "support_agent"}
    THEN "data"
    ELSE "END"

\* route_agents
route_agents(st) ==
    IF st.next_agent \in {"data_agent", "data_agent_then_support"} THEN "data"
    ELSE IF st.next_agent = "support_agent" THEN "support"
    ELSE "END"

\* run_router
run_router(st, q) ==
    LET new_state == RouterAgentRun(st, q) IN
    IF new_state.error # "" THEN [new_state EXCEPT !.next_agent = "END"] ELSE new_state

\* run_data_agent
run_data_agent(st, b) ==
    LET new_state == DataAgentRun(st, b).returned
        after == DataAgentRun(st, b).given
    IN
    IF after.next_agent = "data_agent_then_support"
    THEN IF TruthyInt(after.customer_id)
         THEN [new_state EXCEPT !.next_agent = "support_agent",
                                !.history_customer_id = after.customer_id,
                                !.task = "get_customer_history and summarize"]
         ELSE [new_state EXCEPT !.next_agent = "support_agent",
                                !.task = "Use the fetched customer data"]
    ELSE IF after.task = "list_customers"
    THEN [new_state EXCEPT !.next_agent = "support_agent",
                           !.task = "get_high_priority_tickets_by_ids"]
    ELSE IF new_state.error # "" \/ new_state.last_output.err # ""
    THEN [new_state EXCEPT !.final_answer = [prefix |-> "System Error during Data Fetch: ",
                                             body |-> new_state.last_output],
                           !.next_agent = "END"]
    ELSE [new_state EXCEPT !.final_answer = [prefix |-> "Data Retrieval Complete: ",
                                             body |-> new_state.last_output],
                           !.next_agent = "END"]

\* run_support_agent (SupportAgent.run prepends the history pre-fetch, whose
\* failure it swallows)
run_support_agent(st, b) ==
    LET new_state == SupportAgentRun(st, b).returned IN
    [new_state EXCEPT !.final_answer = [prefix |-> "", body |-> new_state.last_output],
                      !.next_agent = "END"]

GraphInit ==
    /\ node = "router"
    /\ state = InitialState(query)
    /\ toolCalls = {}
    /\ given = InitialState(query)
    /\ calls = <<>>

RouterNode ==
    /\ flow = "graph"
    /\ node = "router"
    /\ state' = run_router(state, query)
    /\ node' = route_agents(state')
    /\ given' = state
    /\ calls' = <<>>
    /\ UNCHANGED <<flow, query, validatorVars, mcpVars, routerVars, toolCalls>>

DataNode ==
    /\ flow = "graph"
    /\ node = "data"
    /\ \E b \in Behaviours :
        /\ state' = run_data_agent(state, b)
        /\ given' = DataAgentRun(state, b).given
        /\ calls' = BaseAgentCalls(b)
        /\ toolCalls' = toolCalls
                \cup {[agent |-> "data", tool |-> t] : t \in InvokedTools(data_tools, b)}
    /\ node' = route_agents(state')
    /\ UNCHANGED <<flow, query, validatorVars, mcpVars, routerVars>>

SupportNode ==
    /\ flow = "graph"
    /\ node = "support"
    /\ \E b \in Behaviours :
        /\ state' = run_support_agent(state, b)
        /\ given' = SupportAgentRun(state, b).given
        /\ calls' = (IF TruthyInt(state.history_customer_id)
                      THEN <<"get_customer_history">> ELSE <<>>) \o BaseAgentCalls(b)
        /\ toolCalls' = toolCalls
                \cup (IF TruthyInt(state.history_customer_id)
                      THEN {[agent |-> "support", tool |-> "get_customer_history"]}
                      ELSE {})
                \cup {[agent |-> "support", tool |-> t] : t \in InvokedTools(support_tools, b)}
    /\ node' = "END"
    /\ UNCHANGED <<flow, query, validatorVars, mcpVars, routerVars>>

GraphNext ==
    \/ RouterNode
    \/ DataNode
    \/ SupportNode

---------------------------------------------------------------------------
(* Intent detection on its own: the head of RouterOrchestrator.run *)

\* scenario = self._classify_query(query); customer_id = self._extract_customer_id(query)
ClassifyAndExtract ==
    /\ flow = "intent"
    /\ pc = "start"
    /\ scenario' = _classify_query(query)
    /\ customer_id' = _extract_customer_id(query)
    /\ pc' = "classified"
    /\ UNCHANGED <<flow, query, dialog_cid, hint, context_payload, task, attempt, reminder,
                   last_text, data_result, support_result, answer, dataSent, supportSent,
                   dataResults, supportRounds, graphVars, validatorVars, mcpVars>>

---------------------------------------------------------------------------
(* Parsing and validating one raw text: data = validate(_parse_json(text)) *)

ValidatorIdle ==
    /\ raw = EmptyText
    /\ parsed = EmptyDict
    /\ role = ""
    /\ validated = EmptyDict

\* _parse_json(text)
ParseJson ==
    /\ flow = "validator"
    /\ pc = "start"
    /\ parsed' = _parse_json(raw)
    /\ pc' = "parsed"
    /\ UNCHANGED <<flow, query, scenario, customer_id, dialog_cid, hint, context_payload,
                   task, attempt, reminder, last_text, data_result, support_result, answer,
                   dataSent, supportSent, dataResults, supportRounds, graphVars,
                   raw, role, validated, mcpVars>>

\* self._validate_customer_payload(payload)
ValidateCustomer ==
    /\ flow = "validator"
    /\ pc = "parsed"
    /\ role' = "data"
    /\ validated' = _validate_customer_payload(parsed)
    /\ pc' = "validated"
    /\ UNCHANGED <<flow, query, scenario, customer_id, dialog_cid, hint, context_payload,
                   task, attempt, reminder, last_text, data_result, support_result, answer,
                   dataSent, supportSent, dataResults, supportRounds, graphVars,
                   raw, parsed, mcpVars>>

\* self._validate_support_payload(payload, strict)
ValidateSupport ==
    /\ flow = "validator"
    /\ pc = "parsed"
    /\ \E strict \in BOOLEAN :
        /\ role' = IF strict THEN "support_strict" ELSE "support"
        /\ validated' = _validate_support_payload(parsed, strict)
    /\ pc' = "validated"
    /\ UNCHANGED <<flow, query, scenario, customer_id, dialog_cid, hint, context_payload,
                   task, attempt, reminder, last_text, data_result, support_result, answer,
                   dataSent, supportSent, dataResults, supportRounds, graphVars,
                   raw, parsed, mcpVars>>

---------------------------------------------------------------------------
(* The store: CustomerServiceDB of database_utils.py                       *)
(*                                                                         *)
(* The store is a record [customers, tickets]: customers maps an id to its  *)
(* row, tickets is the table in rowid order.  The timestamp columns are     *)
(* left out.  A string a store method returns is a record: json tells       *)
(* whether it is a json.dumps output, shape and rows hold the dumped value, *)
(* head is the first word of any other string, about and n identify the     *)
(* rest of the sentence.                                                    *)

\* a value that is not a str: an int given where a str is expected
PyInt == "<int>"
IsStr(v) == v \notin {PyNone, PyTrue, PyFalse, PyInt}

\* str.lower() on the priorities that occur
Lower(s) == IF s = "HIGH" THEN "high" ELSE s

\* str.upper() on the first words that occur
Upper(s) ==
    CASE s \in {"error:", "Error:"} -> "ERROR:"
      [] s = "No" -> "NO"
      [] OTHER -> s

\* upper.startswith("ERROR")
StartsWithError(s) == s = "ERROR:"

\* json.dumps(result[0]) / json.dumps(results)
JsonDumps(shape, rows) ==
    [json |-> TRUE, head |-> "", shape |-> shape, rows |-> rows, about |-> "", n |-> 0]

\* an f-string or literal that is not JSON
Sentence(head, about, n) ==
    [json |-> FALSE, head |-> head, shape |-> "", rows |-> <<>>, about |-> about, n |-> n]

NoStoreText == Sentence("", "", 0)

\* the customers that exist when the server connects to support.db
SeedCustomers ==
    [c \in {1, 2} |->
        IF c = 1
        THEN [name |-> "Ann", email |-> "ann@x", phone |-> "555-1", status |-> "active"]
        ELSE [name |-> "Bob", email |-> "bob@x", phone |-> "555-2", status |-> "disabled"]]

\* the tickets that exist when the server connects to support.db
SeedTickets ==
    {<<>>,
     <<[id |-> 1, customer_id |-> 1, issue |-> "issue", status |-> "open", priority |-> "high"]>>}

\* rank of a name in the ORDER BY c.name
NameRank(nm) == IF nm = "Ann" THEN 1 ELSE IF nm = "Bob" THEN 2 ELSE 3

\* the elements of a set of integers in ascending order (rowid order)
RECURSIVE Ascending(_)
Ascending(S) ==
    IF S = {} THEN <<>>
    ELSE LET m == CHOOSE x \in S : \A y \in S : x <= y
         IN <<m>> \o Ascending(S \ {m})

\* self.conn.execute("PRAGMA foreign_keys = ON"), negated
PragmaForeignKeysOff == FALSE

\* self.conn.execute("PRAGMA foreign_keys = ON")
PragmaForeignKeys == TRUE

\* tickets.customer_id references customers.id: the constraint an INSERT must meet
ForeignKeyHolds(store, cid) == cid \in DOMAIN store.customers

\* the INSERT raises sqlite3.IntegrityError
IntegrityError(store, cid) == PragmaForeignKeys /\ ~ForeignKeyHolds(store, cid)

\* what a store method hands back: the string it returns and the store it leaves,
\* or the exception it raises
Returned(text, store) == [raised |-> "", text |-> text, store |-> store]
Raised(exc, store) == [raised |-> exc, text |-> NoStoreText, store |-> store]

\* CustomerServiceDB.get_customer
get_customer(store, cid) ==
    IF cid \notin DOMAIN store.customers
    THEN Returned(Sentence("ERROR:", "Customer with ID not found.", cid), store)
    ELSE LET c == store.customers[cid] IN
         Returned(JsonDumps("object",
                    <<[id |-> cid, name |-> c.name, email |-> c.email,
                       phone |-> c.phone, status |-> c.status]>>), store)

\* CustomerServiceDB.list_customers
list_customers(store, status) ==
    LET ids == {c \in DOMAIN store.customers :
                    Truthy(status) => store.customers[c].status = status}
        order == Ascending(ids)
        results == [i \in DOMAIN order |->
                        [id |-> order[i], name |-> store.customers[order[i]].name,
                         email |-> store.customers[order[i]].email,
                         status |-> store.customers[order[i]].status]]
    IN  IF results = <<>>
        THEN Returned(Sentence("No", "customers found matching the criteria.", 0), store)
        ELSE Returned(JsonDumps("array", results), store)

\* an update that writes every supplied key
UpdateCustomerAnyKey(store, cid, data) ==
    IF DOMAIN data = {}
    THEN Returned(Sentence("ERROR:", "No valid fields provided for update.", 0), store)
    ELSE IF cid \notin DOMAIN store.customers
    THEN Returned(Sentence("ERROR:", "Customer with ID not found for update.", cid), store)
    ELSE LET old == store.customers[cid]
             new == [k \in DOMAIN old \cup DOMAIN data |->
                        IF k \in DOMAIN data THEN data[k] ELSE old[k]]
         IN Returned(Sentence("SUCCESS:", "Customer ID updated.", cid),
                     [store EXCEPT !.customers[cid] = new])

\* CustomerServiceDB.update_customer
update_customer(store, cid, data) ==
    LET updates == DOMAIN data \cap {"name", "email", "phone", "status"} IN
    IF updates = {}
    THEN Returned(Sentence("ERROR:", "No valid fields provided for update.", 0), store)
    ELSE IF cid \notin DOMAIN store.customers
    THEN Returned(Sentence("ERROR:", "Customer with ID not found for update.", cid), store)
    ELSE LET old == store.customers[cid]
             new == [k \in DOMAIN old |-> IF k \in updates THEN data[k] ELSE old[k]]
         IN Returned(Sentence("SUCCESS:", "Customer ID updated.", cid),
                     [store EXCEPT !.customers[cid] = new])

\* CustomerServiceDB.create_ticket
create_ticket(store, cid, issue, priority) ==
    IF ~IsStr(priority)
    THEN Raised("AttributeError", store)
    ELSE IF IntegrityError(store, cid)
    THEN Returned(Sentence("ERROR:", "Foreign Key constraint failed.", cid), store)
    ELSE LET ticket_id == Len(store.tickets) + 1
             row == [id |-> ticket_id, customer_id |-> cid, issue |-> issue,
                     status |-> "open", priority |-> Lower(priority)]
         IN Returned(Sentence("SUCCESS:", "New ticket created for customer ID.", ticket_id),
                     [store EXCEPT !.tickets = Append(@, row)])

\* a history read that closes the tickets it returns
GetCustomerHistoryClosesTickets(store, cid, status) ==
    LET found == SelectSeq(store.tickets,
                    LAMBDA t : t.customer_id = cid /\ (Truthy(status) => t.status = status))
        results == [i \in DOMAIN found |->
                        [id |-> found[i].id, issue |-> found[i].issue,
                         status |-> found[i].status, priority |-> found[i].priority]]
        closed == [i \in DOMAIN store.tickets |->
                        IF store.tickets[i].customer_id = cid
                        THEN [store.tickets[i] EXCEPT !.status = "closed"]
                        ELSE store.tickets[i]]
    IN  IF results = <<>>
        THEN Returned(Sentence("No", "ticket history found for customer ID.", cid), store)
        ELSE Returned(JsonDumps("array", results), [store EXCEPT !.tickets = closed])

\* CustomerServiceDB.get_customer_history
get_customer_history(store, cid, status) ==
    LET found == SelectSeq(store.tickets,
                    LAMBDA t : t.customer_id = cid /\ (Truthy(status) => t.status = status))
        results == [i \in DOMAIN found |->
                        [id |-> found[i].id, issue |-> found[i].issue,
                         status |-> found[i].status, priority |-> found[i].priority]]
    IN  IF results = <<>>
        THEN Returned(Sentence("No", "ticket history found for customer ID.", cid), store)
        ELSE Returned(JsonDumps("array", results), store)

\* CustomerServiceDB.get_high_priority_tickets_by_ids
get_high_priority_tickets_by_ids(store, customer_ids) ==
    IF customer_ids = <<>>
    THEN Returned(Sentence("No", "customer IDs provided to check.", 0), store)
    ELSE LET wanted == {customer_ids[i] : i \in DOMAIN customer_ids}
             found == SelectSeq(store.tickets,
                        LAMBDA t : /\ t.customer_id \in DOMAIN store.customers
                                   /\ t.customer_id \in wanted
                                   /\ t.priority = "high")
             results == [i \in DOMAIN found |->
                            [id |-> found[i].id,
                             name |-> store.customers[found[i].customer_id].name,
                             issue |-> found[i].issue, status |-> found[i].status,
                             priority |-> found[i].priority]]
         IN IF results = <<>>
            THEN Returned(Sentence("No", "high-priority tickets found.", 0), store)
            ELSE Returned(JsonDumps("array", results), store)

\* COUNT(t.id) of the open tickets of customer c
OpenTicketCount(store, c) ==
    Len(SelectSeq(store.tickets, LAMBDA t : t.customer_id = c /\ t.status = "open"))

\* ORDER BY open_ticket_count DESC, c.name
RECURSIVE ByCountThenName(_, _)
ByCountThenName(store, S) ==
    IF S = {} THEN <<>>
    ELSE LET m == CHOOSE x \in S : \A y \in S :
                    \/ OpenTicketCount(store, x) > OpenTicketCount(store, y)
                    \/ /\ OpenTicketCount(store, x) = OpenTicketCount(store, y)
                       /\ NameRank(store.customers[x].name)
                            < NameRank(store.customers[y].name)
                    \/ /\ OpenTicketCount(store, x) = OpenTicketCount(store, y)
                       /\ NameRank(store.customers[x].name) = NameRank(store.customers[y].name)
                       /\ x <= y
         IN <<m>> \o ByCountThenName(store, S \ {m})

\* CustomerServiceDB.list_active_customers_with_open_tickets
list_active_customers_with_open_tickets(store) ==
    LET ids == {c \in DOMAIN store.customers :
                    /\ store.customers[c].status = "active"
                    /\ OpenTicketCount(store, c) > 0}
        order == ByCountThenName(store, ids)
        results == [i \in DOMAIN order |->
                        [id |-> order[i], name |-> store.customers[order[i]].name,
                         email |-> store.customers[order[i]].email,
                         phone |-> store.customers[order[i]].phone,
                         status |-> store.customers[order[i]].status,
                         open_ticket_count |-> OpenTicketCount(store, order[i])]]
    IN  IF results = <<>>
        THEN Returned(Sentence("No", "active customers currently have open tickets.", 0), store)
        ELSE Returned(JsonDumps("array", results), store)

---------------------------------------------------------------------------
(* The MCP server: mcp_server.py *)

\* json.loads(raw) succeeds
JsonLoads(text) == text.json

\* format_db_result that reports every string that is not JSON as a message
FormatDbResultNoErrors(text) ==
    IF JsonLoads(text)
    THEN [success |-> PyTrue, data |-> [shape |-> text.shape, rows |-> text.rows]]
    ELSE [success |-> PyTrue, message |-> text]

\* format_db_result
format_db_result(text) ==
    IF JsonLoads(text)
    THEN [success |-> PyTrue, data |-> [shape |-> text.shape, rows |-> text.rows]]
    ELSE IF StartsWithError(Upper(text.head))
    THEN [success |-> PyFalse, error |-> text]
    ELSE [success |-> PyTrue, message |-> text]

\* the "required" list of each inputSchema of MCP_TOOLS
SchemaRequired(name) ==
    CASE name = "get_customer" -> {"customer_id"}
      [] name = "update_customer" -> {"customer_id"}
      [] name = "create_ticket" -> {"customer_id", "issue", "priority"}
      [] name = "get_customer_history" -> {"customer_id"}
      [] name = "get_high_priority_tickets_by_ids" -> {"customer_ids"}
      [] OTHER -> {}

\* the keys of TOOL_FUNCTIONS
TOOL_FUNCTIONS ==
    {"get_customer", "list_customers", "update_customer", "create_ticket",
     "get_customer_history", "get_high_priority_tickets_by_ids",
     "list_active_customers_with_open_tickets"}

\* the parameters without a default in the signature of each tool function
RequiredParams(name) ==
    CASE name = "get_customer" -> {"customer_id"}
      [] name = "list_customers" -> {}
      [] name = "update_customer" -> {"customer_id"}
      [] name = "create_ticket" -> {"customer_id", "issue", "priority"}
      [] name = "get_customer_history" -> {"customer_id"}
      [] name = "get_high_priority_tickets_by_ids" -> {"customer_ids"}
      [] name = "list_active_customers_with_open_tickets" -> {}

\* a call that binds whatever keywords it is given
BindNeverFails(name, arguments) == FALSE

\* TOOL_FUNCTIONS[name](**arguments) raises TypeError: a required parameter is missing
BindFails(name, arguments) == ~(RequiredParams(name) \subseteq DOMAIN arguments)

\* dict without key k: the **data / **_ left after the named parameters
Without(d, k) == [x \in DOMAIN d \ {k} |-> d[x]]

\* TOOL_FUNCTIONS[name](**arguments) up to the string of the store method
CallStore(name, arguments, store) ==
    LET cid == Get(arguments, "customer_id", 0)
        status == Get(arguments, "status", PyNone)
    IN  CASE name = "get_customer" -> get_customer(store, cid)
          [] name = "list_customers" -> list_customers(store, status)
          [] name = "update_customer" ->
                update_customer(store, cid, Without(arguments, "customer_id"))
          [] name = "create_ticket" ->
                create_ticket(store, cid, Get(arguments, "issue", PyNone),
                              Get(arguments, "priority", PyNone))
          [] name = "get_customer_history" -> get_customer_history(store, cid, status)
          [] name = "get_high_priority_tickets_by_ids" ->
                get_high_priority_tickets_by_ids(store, Get(arguments, "customer_ids", <<>>))
          [] name = "list_active_customers_with_open_tickets" ->
                list_active_customers_with_open_tickets(store)

\* JSON-RPC responses of handle_tools_call
RpcError(code) == [kind |-> "error", code |-> code, result |-> EmptyDict]
RpcResult(envelope) == [kind |-> "result", code |-> 0, result |-> envelope]
NoResponse == [kind |-> "", code |-> 0, result |-> EmptyDict]

\* handle_tools_call: the response, the store afterwards, the string the store returned
handle_tools_call(message, store) ==
    LET name == message.name
        arguments == message.arguments
    IN  IF name \notin TOOL_FUNCTIONS
        THEN [response |-> RpcError(0 - 32601), store |-> store, text |-> NoStoreText]
        ELSE IF BindFails(name, arguments)
        THEN [response |-> RpcError(0 - 32602), store |-> store, text |-> NoStoreText]
        ELSE LET r == CallStore(name, arguments, store) IN
             IF r.raised = "TypeError"
             THEN [response |-> RpcError(0 - 32602), store |-> r.store, text |-> NoStoreText]
             ELSE IF r.raised # ""
             THEN [response |-> RpcError(0 - 32603), store |-> r.store, text |-> NoStoreText]
             ELSE [response |-> RpcResult(format_db_result(r.text)),
                   store |-> r.store, text |-> r.text]

\* the keyword arguments a request may carry: some of the keys of a full set
Restrict(f, K) == [k \in K |-> f[k]]
ArgumentsOf(full) ==
    {Restrict(f[1], f[2]) : f \in {<<g, K>> \in full \X (SUBSET
        {"customer_id", "customer_ids", "issue", "priority", "status", "email", "nickname"}) :
            K \subseteq DOMAIN g}}

\* the arguments of the requests to each tool
ToolArguments(name) ==
    CASE name = "get_customer" -> ArgumentsOf([customer_id : {1, 9}])
      [] name = "list_customers" -> ArgumentsOf([status : {"active", "pending"}])
      [] name = "update_customer" ->
            ArgumentsOf([customer_id : {1, 9}, email : {"new@x"},
                         status : {"disabled"}, nickname : {"nick"}])
      [] name = "create_ticket" ->
            ArgumentsOf([customer_id : {1, 2, 9}, issue : {"issue"},
                         priority : {"HIGH", "low", PyInt}])
      [] name = "get_customer_history" ->
            ArgumentsOf([customer_id : {1, 9}, status : {"open"}])
      [] name = "get_high_priority_tickets_by_ids" ->
            ArgumentsOf([customer_ids : {<<>>, <<1>>, <<2, 9>>}])
      [] OTHER -> ArgumentsOf([customer_id : {1}])

\* the tools/call messages a client may post: registered tools, a tool that is
\* not registered, and no name at all (params.get("name") is None)
ToolsCallMessages ==
    {[method |-> "tools/call", name |-> f[1], arguments |-> f[2]] :
        f \in UNION {{<<nm, a>> : a \in ToolArguments(nm)} :
                        nm \in TOOL_FUNCTIONS \cup {"delete_customer", PyNone}}}

NoRequest == [method |-> "", name |-> PyNone, arguments |-> EmptyDict]

\* self.cursor = self.conn.cursor(): nothing executed yet
NewCursor == [rows |-> <<>>, lastrowid |-> 0, rowcount |-> 0 - 1]

\* a request thread: pc is "start" before cursor.execute, "executed" between
\* execute and the read of the cursor, "done" after the method returned; own is
\* the string the method returns when it runs alone on the store it found
Worker(pc_, call, own, reply) == [pc |-> pc_, call |-> call, own |-> own, reply |-> reply]
NoWorkers == [t \in {1, 2} |-> Worker("idle", NoRequest, NoStoreText, NoStoreText)]

\* the server has connected to the store and has handled no request
McpIdle ==
    /\ db = [customers |-> SeedCustomers, tickets |-> <<>>]
    /\ request = NoRequest
    /\ response = NoResponse
    /\ db_text = NoStoreText
    /\ cursor = NewCursor
    /\ worker = NoWorkers

\* POST /mcp with method tools/call: process_mcp_message -> handle_tools_call
ToolsCall ==
    /\ flow = "mcp"
    /\ \E message \in ToolsCallMessages :
        LET r == handle_tools_call(message, db) IN
        /\ Len(r.store.tickets) <= MaxTickets
        /\ request' = message
        /\ response' = r.response
        /\ db' = r.store
        /\ db_text' = r.text
    /\ UNCHANGED <<flow, query, routerVars, graphVars, validatorVars, cursor, worker>>

\* the calls two clients post at the same time
RaceCalls ==
    {[method |-> "tools/call", name |-> "create_ticket",
      arguments |-> [customer_id |-> c, issue |-> "issue", priority |-> "high"]] :
        c \in {1, 2}}
    \cup {[method |-> "tools/call", name |-> "update_customer",
           arguments |-> [customer_id |-> c, email |-> "new@x"]] : c \in {1, 9}}
    \cup {[method |-> "tools/call", name |-> "get_customer",
           arguments |-> [customer_id |-> c]] : c \in {1, 2}}

\* self.cursor.execute(statement) of the store method behind a call: the store
\* and the cursor it leaves.  An INSERT sets lastrowid, an UPDATE rowcount, a
\* SELECT the rows fetchall() will hand out.
CursorExecute(call, store, cur) ==
    LET r == CallStore(call.name, call.arguments, store)
        cid == call.arguments["customer_id"]
    IN  CASE call.name = "create_ticket" ->
                [store |-> r.store,
                 cursor |-> [rows |-> <<>>, lastrowid |-> Len(r.store.tickets),
                             rowcount |-> 1]]
          [] call.name = "update_customer" ->
                [store |-> r.store,
                 cursor |-> [rows |-> <<>>, lastrowid |-> cur.lastrowid,
                             rowcount |-> IF cid \in DOMAIN store.customers THEN 1 ELSE 0]]
          [] call.name = "get_customer" ->
                [store |-> store,
                 cursor |-> [rows |-> IF r.text.json THEN r.text.rows ELSE <<>>,
                             lastrowid |-> cur.lastrowid, rowcount |-> 0 - 1]]

\* the rest of the store method: the string it builds from self.cursor.lastrowid,
\* self.cursor.rowcount or self.cursor.fetchall() as the cursor is by then
CursorRead(call, cur) ==
    LET cid == call.arguments["customer_id"] IN
    CASE call.name = "create_ticket" ->
            Sentence("SUCCESS:", "New ticket created for customer ID.", cur.lastrowid)
      [] call.name = "update_customer" ->
            IF cur.rowcount = 0
            THEN Sentence("ERROR:", "Customer with ID not found for update.", cid)
            ELSE Sentence("SUCCESS:", "Customer ID updated.", cid)
      [] call.name = "get_customer" ->
            IF cur.rows = <<>>
            THEN Sentence("ERROR:", "Customer with ID not found.", cid)
            ELSE JsonDumps("object", <<cur.rows[1]>>)

\* thread t runs self.cursor.execute(...) of its store method
Execute(t) ==
    /\ flow = "race"
    /\ worker[t].pc = "start"
    /\ LET call == worker[t].call
           x == CursorExecute(call, db, cursor)
       IN  /\ db' = x.store
           /\ cursor' = x.cursor
           /\ worker' = [worker EXCEPT ![t] =
                            Worker("executed", call,
                                   CallStore(call.name, call.arguments, db).text,
                                   NoStoreText)]
    /\ UNCHANGED <<flow, query, routerVars, graphVars, validatorVars,
                   request, response, db_text>>

\* thread t reads the cursor and returns its string; fetchall() takes the rows out
\* of the cursor
Fetch(t) ==
    /\ flow = "race"
    /\ worker[t].pc = "executed"
    /\ worker' = [worker EXCEPT ![t] =
                    Worker("done", worker[t].call, worker[t].own,
                           CursorRead(worker[t].call, cursor))]
    /\ cursor' = IF worker[t].call.name = "get_customer"
                 THEN [cursor EXCEPT !.rows = <<>>] ELSE cursor
    /\ UNCHANGED <<flow, query, routerVars, graphVars, validatorVars,
                   db, request, response, db_text>>

---------------------------------------------------------------------------
(* Specifications *)

Init ==
    /\ flow \in {"router", "graph"}
    /\ query \in Queries
    /\ RouterInit
    /\ GraphInit
    /\ ValidatorIdle
    /\ McpIdle

Next == RouterNext \/ GraphNext

Spec == Init /\ [][Next]_vars

\* The intent detection applied to every query composed of keyword phrases.
IntentInit ==
    /\ flow = "intent"
    /\ query \in ComposedQueries
    /\ RouterInit
    /\ GraphInit
    /\ ValidatorIdle
    /\ McpIdle

IntentNext == ClassifyAndExtract

IntentSpec == IntentInit /\ [][IntentNext]_vars

\* The parser and the validators applied to every raw text.
ValidatorInit ==
    /\ flow = "validator"
    /\ query = <<>>
    /\ RouterInit
    /\ GraphInit
    /\ raw \in RawTexts
    /\ parsed = EmptyDict
    /\ role = ""
    /\ validated = EmptyDict
    /\ McpIdle

ValidatorNext == ParseJson \/ ValidateCustomer \/ ValidateSupport

ValidatorSpec == ValidatorInit /\ [][ValidatorNext]_vars

\* The MCP server answering tools/call requests, one at a time, from a store that
\* holds the seed customers and some seed tickets.
McpInit ==
    /\ flow = "mcp"
    /\ query = <<>>
    /\ RouterInit
    /\ GraphInit
    /\ ValidatorIdle
    /\ db \in {[customers |-> SeedCustomers, tickets |-> t] : t \in SeedTickets}
    /\ request = NoRequest
    /\ response = NoResponse
    /\ db_text = NoStoreText
    /\ cursor = NewCursor
    /\ worker = NoWorkers

McpNext == ToolsCall

McpSpec == McpInit /\ [][McpNext]_vars

\* Two tools/call requests served by two threads of the Flask server, each inside
\* its store method; a thread may be preempted between any two statements.
RaceInit ==
    /\ flow = "race"
    /\ query = <<>>
    /\ RouterInit
    /\ GraphInit
    /\ ValidatorIdle
    /\ db \in {[customers |-> SeedCustomers, tickets |-> t] : t \in SeedTickets}
    /\ request = NoRequest
    /\ response = NoResponse
    /\ db_text = NoStoreText
    /\ cursor = NewCursor
    /\ worker \in {[t \in {1, 2} |->
                        Worker("start", IF t = 1 THEN f[1] ELSE f[2], NoStoreText, NoStoreText)] :
                    f \in RaceCalls \X RaceCalls}

RaceNext == \E t \in {1, 2} : Execute(t) \/ Fetch(t)

RaceSpec == RaceInit /\ [][RaceNext]_vars

\* Every pending step is eventually taken: an awaited specialist call completes
\* (with a response or an exception) and a workflow node that is due runs.
FairSpec == Spec /\ WF_vars(Next)

---------------------------------------------------------------------------
(* Properties *)

RouterFlow == flow = "router"
Terminated == pc \in {"done", "raised"}

\* the customer id is known to the Router (_log_intent: falsy ids are "unknown")
Known(cid) == TruthyInt(cid)

\* the query has an id phrase: the id pattern matches somewhere
HasIdPhrase(q) == \E i \in 1..Len(q) : IdMatchAt(q, i).has

IsDataFallback(d) ==
    Get(d, "handoff_summary", "") = "Customer Data agent returned unexpected output."

IsSupportFallback(r) ==
    Get(r, "notes_for_router", "") \in
        {"Support agent asked for additional context but responded outside JSON.",
         "Support agent returned plain text; router wrapped it in schema."}

\* the state right after _call_support returned: support_result is its payload
SupportJustReturned ==
    RouterFlow /\ supportRounds > 0 /\ (pc = "done" \/ (pc = "data" /\ attempt = 0))

\* C1: every run of RouterOrchestrator.run leaves the Support<->Data context loop:
\* it eventually returns (an answer, or at least the exception of a failed transport).
C1_RunTerminates == <>(RouterFlow => Terminated)

\* C2: a specialist call delivers its brief at most 3 times; it goes round again only
\* after a response that fails validation, returns the validated response as soon
\* as one validates, and returns the synthesized fallback only out of the third
\* delivery.
C2_Retry ==
    /\ (pc = "data" /\ pc' = "data") =>
            /\ attempt' = attempt + 1
            /\ attempt' < 3
            /\ IsInvalid(_validate_customer_payload(_parse_json(last_text')))
    /\ (pc = "data" /\ pc' = "support") =>
            IF IsDataFallback(data_result') THEN attempt = 2
            ELSE /\ ~IsInvalid(data_result')
                 /\ _validate_customer_payload(data_result') = data_result'
    /\ (pc = "support" /\ pc' = "support") =>
            /\ attempt' = attempt + 1
            /\ attempt' < 3
            /\ IsInvalid(_validate_support_payload(_parse_json(last_text'), TRUE))
    /\ (pc = "support" /\ pc' \in {"done", "data"}) =>
            IF IsSupportFallback(support_result') THEN attempt = 2
            ELSE /\ ~IsInvalid(support_result')
                 /\ _validate_support_payload(support_result', TRUE) = support_result'
C2_AtMostThreeAttemptsThenFallback == [][C2_Retry]_vars

\* both calls of one run ended in their fallback
C2_Witness ==
    /\ RouterFlow /\ pc = "done"
    /\ IsSupportFallback(support_result)
    /\ context_payload = "<raw_text>"

\* the Support envelope invariant
SupportEnvelope(r) ==
    /\ "requires_context" \in DOMAIN r
    /\ IF Truthy(r["requires_context"])
       THEN Truthy(Get(r, "context_type", PyNone))
       ELSE "customer_response" \in DOMAIN r

\* C3: every payload _call_support returns, validated or synthesized, satisfies the
\* Support envelope invariant.
C3_ReturnedSupportEnvelope == SupportJustReturned => SupportEnvelope(support_result)

\* a fallback asking for context went back into the dialog
C3_Witness ==
    /\ SupportJustReturned
    /\ IsSupportFallback(support_result)
    /\ support_result["requires_context"] = PyTrue
    /\ pc = "data"

\* the dialog ended on Support's request for more information
SurfacedRequest ==
    /\ pc = "done"
    /\ answer = _format_support_response(support_result)
    /\ answer.kind \in {"notes", "requires_more"}

\* C4 as claimed: a billing_escalation query without an id phrase never causes a
\* Data request, and Support's first request for context ends the run.
C4_NoIdPhraseBillingEndsEarly ==
    (RouterFlow /\ scenario = "billing_escalation" /\ ~HasIdPhrase(query)) =>
        /\ pc # "data"
        /\ dataSent = 0
        /\ (supportRounds > 0 /\ Truthy(Get(support_result, "requires_context", PyNone)))
                => SurfacedRequest

\* C4 amended: a billing_escalation query for which _extract_customer_id obtains no
\* id (no id phrase and no keyword guess) has Support consulted first with no
\* context, never causes a Data request, and ends on Support's first request for
\* context.
C4_NoIdBillingEndsEarly ==
    (RouterFlow /\ scenario = "billing_escalation" /\ ~customer_id.has) =>
        /\ pc # "data"
        /\ dataSent = 0
        /\ context_payload = PyNone
        /\ (supportRounds > 0 /\ Truthy(Get(support_result, "requires_context", PyNone)))
                => (SurfacedRequest /\ supportRounds = 1)

C4_Witness ==
    /\ RouterFlow /\ scenario = "billing_escalation" /\ ~customer_id.has
    /\ supportRounds = 1
    /\ Get(support_result, "requires_context", PyNone) = PyTrue
    /\ Get(support_result, "context_type", PyNone) = "billing"
    /\ SurfacedRequest

\* C5: when _support_dialog runs with no known customer_id and Support asks for
\* context, the dialog ends on that first result: the payload is what the answer is
\* formatted from, Support was called once and no Data request follows.
C5_NoIdDialogEndsOnFirstResult ==
    (RouterFlow /\ ~Known(dialog_cid) /\ supportRounds > 0
     /\ Truthy(Get(support_result, "requires_context", PyNone))) =>
        /\ pc = "done"
        /\ supportRounds = 1
        /\ answer = _format_support_response(support_result)

\* a report scenario (the dialog gets no customer_id) whose Support asked for context
C5_Witness ==
    /\ RouterFlow /\ scenario = "premium_report" /\ ~Known(dialog_cid)
    /\ supportRounds = 1 /\ dataResults = 1
    /\ Get(support_result, "requires_context", PyNone) = PyTrue
    /\ pc = "done"

NeedsCustomerId(sc) ==
    sc \in {"upgrade", "account_help", "simple_lookup", "update_email_history", "multi_intent"}
NeedsEmail(sc) == sc \in {"update_email_history", "multi_intent"}

\* C6 as claimed: in a scenario that needs an entity, the Router answers with a
\* clarification and contacts no specialist when _extract_customer_id (or
\* _extract_email) found none, and answers no clarification when the entity was found.
C6_ClarifyIffEntityMissing ==
    (RouterFlow /\ pc # "start" /\ NeedsCustomerId(scenario)) =>
        IF ~customer_id.has \/ (NeedsEmail(scenario) /\ _extract_email(query) = PyNone)
        THEN pc = "done" /\ answer.kind = "clarify" /\ dataSent = 0 /\ supportSent = 0
        ELSE answer.kind # "clarify"

\* the scenarios whose handler fetches data for Support
FetchesDataFirst ==
    \/ scenario \in {"premium_report", "active_open", "update_email_history",
                     "multi_intent", "upgrade", "account_help", "simple_lookup"}
    \/ (scenario = "generic" /\ Known(customer_id))

\* C7: Support is first contacted only after a Data result was obtained, in every
\* router scenario that fetches data for Support; the workflow's support node is
\* entered on the data_agent_then_support route only out of the data node.
C7_Step ==
    /\ (RouterFlow /\ supportSent = 0 /\ supportSent' > 0 /\ FetchesDataFirst)
            => dataResults >= 1
    /\ (flow = "graph" /\ node # "support" /\ node' = "support"
        /\ _determine_route(query).next_agent = "data_agent_then_support")
            => node = "data"
C7_DataBeforeSupport == [][C7_Step]_vars

C7_Witness ==
    /\ RouterFlow /\ scenario = "account_help"
    /\ supportSent = 1 /\ dataResults = 1 /\ pc = "support"

\* C8 as claimed: no exception leaves the Router entry point.
C8_NoExceptionEscapes == RouterFlow => pc # "raised"

\* C9 as claimed: an agent invokes only tools of its own declared subset.
C9_OnlyDeclaredTools ==
    \A c \in toolCalls :
        c.tool \in (IF c.agent = "data" THEN data_tools ELSE support_tools)

\* C10 as claimed: a simple_lookup query with an explicit customer id never reaches
\* Support and is answered "Data Retrieval Complete: ...".
C10_SimpleLookupIsDataOnly ==
    (RouterFlow /\ scenario = "simple_lookup" /\ HasIdPhrase(query)) =>
        /\ supportSent = 0
        /\ pc = "done" => answer.kind = "data_complete"

\* the intent detection has run on the query
Classified == flow = "intent" /\ pc = "classified"

Scenarios == {"premium_report", "active_open", "update_email_history",
              "billing_escalation", "upgrade", "account_help", "simple_lookup",
              "multi_intent", "generic"}

\* the predicate of the i-th classification rule, and the scenario it names
RuleMatches(i, q) ==
    CASE i = 1 -> Contains(q, <<"high-priority">>) \/ Contains(q, <<"premium">>)
      [] i = 2 -> Contains(q, <<"active", "customers">>) /\ Contains(q, <<"open", "tickets">>)
      [] i = 3 -> Contains(q, <<"update", "my", "email">>)
                  /\ Contains(q, <<"ticket", "history">>)
      [] i = 4 -> /\ \/ Contains(q, <<"cancel">>) \/ Contains(q, <<"refund">>)
                     \/ Contains(q, <<"charged", "twice">>) \/ Contains(q, <<"billing">>)
                  /\ Contains(q, <<"customer", "id">>)
      [] i = 5 -> Contains(q, <<"charged", "twice">>) \/ Contains(q, <<"refund">>)
      [] i = 6 -> Contains(q, <<"upgrade">>)
      [] i = 7 -> Contains(q, <<"help", "with", "my", "account">>)
                  \/ Contains(q, <<"check", "my", "details">>)
      [] i = 8 -> Contains(q, <<"customer", "information">>)
      [] i = 9 -> Contains(q, <<"ticket", "history">>) /\ Contains(q, <<"update">>)
RuleScenario == <<"premium_report", "active_open", "update_email_history",
                  "billing_escalation", "billing_escalation", "upgrade", "account_help",
                  "simple_lookup", "multi_intent">>
MatchingRules(q) == {i \in 1..9 : RuleMatches(i, q)}

\* C11: _classify_query maps every query to one of the nine scenarios, and a query
\* that matches no rule to generic.
C11_ClassificationTotal ==
    Classified =>
        /\ scenario \in Scenarios
        /\ MatchingRules(query) = {} => scenario = "generic"

\* a query with an id phrase and no keyword of any rule
C11_Witness ==
    /\ Classified
    /\ MatchingRules(query) = {}
    /\ customer_id.has
    /\ scenario = "generic"

\* C12: a query that satisfies several rules gets the scenario of the earliest of
\* them in the fixed order.
C12_FirstMatchWins ==
    (Classified /\ MatchingRules(query) # {}) =>
        scenario = RuleScenario[CHOOSE i \in MatchingRules(query) :
                                    \A k \in MatchingRules(query) : i <= k]

\* account help, customer-information lookup and ticket-history+update all match
C12_Witness ==
    /\ Classified
    /\ {7, 8, 9} \subseteq MatchingRules(query)
    /\ scenario = "account_help"

\* the numbers N of the explicit phrases "id N", "id: N", "id is N" (and so of
\* "customer id N") of a query
ExplicitIds(q) ==
    {IdTail(q, i + 1).n : i \in {k \in 1..Len(q) : q[k].w = "id" /\ IdTail(q, k + 1).has}}

\* C13 as claimed: for a query with an explicit id phrase the extraction returns the
\* number of that phrase, whatever precedes it.
C13_ExplicitIdExtracted ==
    (Classified /\ ExplicitIds(query) # {}) =>
        /\ customer_id.has
        /\ customer_id.n \in ExplicitIds(query)

HeuristicKeyword(q) ==
    \/ Contains(q, <<"charged", "twice">>) \/ Contains(q, <<"double", "charge">>)
    \/ Contains(q, <<"refund">>) \/ Contains(q, <<"upgrade", "my", "account">>)
    \/ Contains(q, <<"upgrade", "assistance">>)

WithDefaultNextAgent(p) ==
    [k \in DOMAIN p \cup {"recommended_next_agent"} |->
        IF k \in DOMAIN p THEN p[k] ELSE "router"]

\* C15: every payload _call_customer_data returns has handoff_summary,
\* context_payload and recommended_next_agent.  The fallback recommends "router";
\* any other returned payload is the object of a response that had handoff_summary
\* and context_payload, with the specialist's recommended_next_agent when it gave
\* one and "router" otherwise.
C15_Step ==
    (pc = "data" /\ pc' = "support") =>
        /\ {"handoff_summary", "context_payload", "recommended_next_agent"}
                \subseteq DOMAIN data_result'
        /\ IF IsDataFallback(data_result')
           THEN data_result'["recommended_next_agent"] = "router"
           ELSE /\ \E text \in DataTexts :
                        _validate_customer_payload(_parse_json(text)) = data_result'
                /\ \A text \in DataTexts :
                        _validate_customer_payload(_parse_json(text)) = data_result' =>
                            /\ {"handoff_summary", "context_payload"}
                                    \subseteq DOMAIN _parse_json(text)
                            /\ data_result' = WithDefaultNextAgent(_parse_json(text))
C15_DataPayloadKeys == [][C15_Step]_vars

\* a returned payload that carries the specialist's own recommendation
C15_Witness ==
    /\ RouterFlow /\ pc = "support" /\ attempt = 0
    /\ ~IsDataFallback(data_result)
    /\ Get(data_result, "recommended_next_agent", PyNone) = "support"

\* a validator has run on the parsed object
Validated == flow = "validator" /\ pc = "validated"

\* the object satisfies the required keys of its role
WellFormedData(p) == {"handoff_summary", "context_payload"} \subseteq DOMAIN p
WellFormedSupport(p) ==
    /\ "requires_context" \in DOMAIN p
    /\ IF Truthy(p["requires_context"])
       THEN Truthy(Get(p, "context_type", PyNone))
       ELSE "customer_response" \in DOMAIN p
WellFormedInput ==
    IF role = "data" THEN WellFormedData(parsed) ELSE WellFormedSupport(parsed)

\* C16 as claimed: a well-formed object validates, and every key it had keeps its
\* value in the validator's output.
C16_RoundTripKeepsEveryKey ==
    (Validated /\ WellFormedInput) =>
        /\ ~IsInvalid(validated)
        /\ DOMAIN parsed \subseteq DOMAIN validated
        /\ \A k \in DOMAIN parsed : validated[k] = parsed[k]

\* the Support validator resets this key: a context_type other than None and "null"
\* next to a falsy requires_context
ResetsContextType(k) ==
    /\ role # "data"
    /\ k = "context_type"
    /\ ~Truthy(parsed["requires_context"])
    /\ parsed[k] \notin {PyNone, "null"}

\* C16 amended: a well-formed object validates, and every key it had keeps its
\* value, except that the Support validator sets context_type to None when
\* requires_context is false and context_type was neither None nor "null".
C16_RoundTripExceptContextType ==
    (Validated /\ WellFormedInput) =>
        /\ ~IsInvalid(validated)
        /\ DOMAIN parsed \subseteq DOMAIN validated
        /\ \A k \in DOMAIN parsed :
                validated[k] = IF ResetsContextType(k) THEN PyNone ELSE parsed[k]

\* a final reply that came with context_type "billing"
C16_Witness ==
    /\ Validated /\ WellFormedInput
    /\ role = "support_strict"
    /\ parsed["requires_context"] = PyFalse
    /\ Get(parsed, "context_type", PyNone) = "billing"
    /\ validated["context_type"] = PyNone
    /\ validated["customer_response"] = "reply"

\* the text is one JSON object among prose, fence markers and json tags
OneObjectInNoise(toks) ==
    /\ Cardinality({i \in DOMAIN toks : toks[i] = "OBJ"}) = 1
    /\ \A i \in DOMAIN toks : toks[i] \in {"OBJ", "prose", Fence, "json"}

\* C17 as claimed: from a text that is one well-formed JSON object surrounded by
\* prose and/or code-fence markers _parse_json returns exactly that object.
C17_SalvagesTheObject ==
    (flow = "validator" /\ pc # "start" /\ OneObjectInNoise(raw.toks)) =>
        parsed = raw.obj

McpFlow == flow = "mcp"

\* the request the server has just answered lacks an argument its schema requires
MissingRequired(message) ==
    /\ message.name \in TOOL_FUNCTIONS
    /\ ~(SchemaRequired(message.name) \subseteq DOMAIN message.arguments)

C18_Step ==
    (McpFlow /\ request'.method = "tools/call") =>
        /\ request'.name \notin TOOL_FUNCTIONS =>
                /\ response' = RpcError(0 - 32601)
                /\ db_text' = NoStoreText
                /\ db' = db
        /\ MissingRequired(request') =>
                /\ response' = RpcError(0 - 32602)
                /\ db_text' = NoStoreText
                /\ db' = db

\* C18: a tools/call naming an unregistered tool is answered with error -32601, one
\* omitting a required argument of a registered tool with error -32602; in both
\* cases no store method has returned anything and the store is as it was.
C18_CallerErrors == [][C18_Step]_vars

\* create_ticket without its priority, refused while the store holds a ticket
C18_Witness ==
    /\ McpFlow
    /\ request.name = "create_ticket"
    /\ DOMAIN request.arguments = {"customer_id", "issue"}
    /\ response = RpcError(0 - 32602)
    /\ Len(db.tickets) = 1

\* the tool function returned: the response carries its envelope
Dispatched == McpFlow /\ response.kind = "result"

\* the store's string is not JSON and begins with "ERROR" in any letter case
IsErrorText(text) == ~text.json /\ Upper(text.head) = "ERROR:"

\* C19: the envelope of every dispatched tool has a boolean success and exactly one
\* of data, message, error; success is false exactly when error is present, which
\* is exactly when the store's string is not JSON and begins with "ERROR".
C19_Envelope ==
    Dispatched =>
        LET envelope == response.result IN
        /\ "success" \in DOMAIN envelope
        /\ envelope["success"] \in {PyTrue, PyFalse}
        /\ Cardinality(DOMAIN envelope \cap {"data", "message", "error"}) = 1
        /\ DOMAIN envelope \subseteq {"success", "data", "message", "error"}
        /\ envelope["success"] = PyFalse <=> "error" \in DOMAIN envelope
        /\ "error" \in DOMAIN envelope <=> IsErrorText(db_text)

\* an update of a customer that does not exist comes back as an error envelope
C19_Witness ==
    /\ Dispatched
    /\ request.name = "update_customer"
    /\ response.result["success"] = PyFalse
    /\ "error" \in DOMAIN response.result
    /\ db_text.head = "ERROR:"
    /\ db_text.about = "Customer with ID not found for update."

\* the request is a well-typed call create_ticket(customer_id, issue, priority)
CreateTicketCall(message) ==
    /\ message.name = "create_ticket"
    /\ {"customer_id", "issue", "priority"} \subseteq DOMAIN message.arguments
    /\ IsStr(message.arguments["priority"])

C20_Step ==
    (McpFlow /\ CreateTicketCall(request')) =>
        LET cid == request'.arguments["customer_id"] IN
        IF cid \notin DOMAIN db.customers
        THEN /\ response'.kind = "result"
             /\ response'.result["success"] = PyFalse
             /\ db' = db
        ELSE /\ db'.customers = db.customers
             /\ Len(db'.tickets) = Len(db.tickets) + 1
             /\ SubSeq(db'.tickets, 1, Len(db.tickets)) = db.tickets
             /\ db'.tickets[Len(db'.tickets)].customer_id = cid
             /\ db'.tickets[Len(db'.tickets)].status = "open"
             /\ response'.kind = "result"
             /\ response'.result["success"] = PyTrue

\* C20: create_ticket for a customer id that is not in the store returns an error
\* envelope and adds no row; for a customer that exists it adds exactly one ticket,
\* open and of that customer, and changes nothing else.
C20_CreateTicket == [][C20_Step]_vars

\* a ticket for customer 9, who does not exist, refused after one was created
C20_Witness ==
    /\ McpFlow
    /\ CreateTicketCall(request)
    /\ request.arguments["customer_id"] = 9
    /\ response.kind = "result"
    /\ response.result["success"] = PyFalse
    /\ db_text.about = "Foreign Key constraint failed."
    /\ Len(db.tickets) > 0
    /\ \A i \in DOMAIN db.tickets : db.tickets[i].customer_id # 9

GraphFlow == flow = "graph"

C21_Step ==
    (GraphFlow /\ node \in {"data", "support"} /\ node' # node) => given' = state

\* C21 as claimed: the state dict a node passes to its specialist's run is, when run
\* returns, what it was when run was called.
C21_SpecialistLeavesStateAlone == [][C21_Step]_vars

\* the brief _support_dialog builds for the _call_support that is running
SupportBrief == _build_support_prompt(context_payload, hint)

\* what a brief shows for payload p
Embedded(p) == IF p = PyNone THEN "No structured context yet." ELSE p

C22_Step ==
    (RouterFlow /\ pc' = "support") =>
        /\ SupportBrief'.context_block = Embedded(context_payload')
        /\ pc = "start" => context_payload' = PyNone /\ dataResults' = 0
        /\ pc = "support" => context_payload' = context_payload
        /\ pc = "data" =>
            /\ context_payload' = data_result'["context_payload"]
            /\ IF IsDataFallback(data_result')
               THEN context_payload' \in {RawTextPayload(text) : text \in DataTexts}
               ELSE /\ \E text \in DataTexts :
                            _validate_customer_payload(_parse_json(text)) = data_result'
                    /\ \A text \in DataTexts :
                            _validate_customer_payload(_parse_json(text)) = data_result' =>
                                _parse_json(text)["context_payload"] = context_payload'

\* C22: every Support brief embeds the context_payload of the latest Data result as
\* the specialist gave it (the no-context marker before any Data step); retries and
\* further rounds keep it; the only payload the Router makes up is the fallback's
\* raw_text wrapper.
C22_BriefEmbedsLatestContext == [][C22_Step]_vars

\* the second Support round of a dialog, on the context Support asked for
C22_Witness ==
    /\ RouterFlow /\ pc = "support"
    /\ supportRounds >= 1 /\ dataResults >= 1
    /\ ~IsDataFallback(data_result)
    /\ context_payload = "ctxA"
    /\ SupportBrief.context_block = "ctxA"

\* run has returned an answer formatted from the Support payload that ended the dialog
AnsweredFromSupport == RouterFlow /\ pc = "done" /\ answer.kind # "clarify"

\* C23: with requires_context false the answer is customer_response, followed by the
\* router note exactly when notes_for_router is non-empty; with requires_context
\* true it is notes_for_router when that is non-empty and otherwise the message
\* naming the requested context_type, and it is not customer_response.
C23_FinalAnswerFromSupportPayload ==
    AnsweredFromSupport =>
        LET notes == Get(support_result, "notes_for_router", PyNone) IN
        IF ~Truthy(Get(support_result, "requires_context", PyNone))
        THEN /\ "customer_response" \in DOMAIN support_result
             /\ answer.kind = "final"
             /\ answer.body = support_result["customer_response"]
             /\ answer.note = IF Truthy(notes) THEN notes ELSE ""
        ELSE /\ answer.note = ""
             /\ IF Truthy(notes)
                THEN answer.kind = "notes" /\ answer.body = notes
                ELSE /\ answer.kind = "requires_more"
                     /\ Truthy(Get(support_result, "context_type", PyNone))
                     /\ answer.body = support_result["context_type"]
             /\ "customer_response" \in DOMAIN support_result =>
                    answer.body # support_result["customer_response"]

\* an unresolved request for billing context whose payload also carried a reply
C23_Witness ==
    /\ AnsweredFromSupport
    /\ Get(support_result, "requires_context", PyNone) = PyTrue
    /\ "notes_for_router" \notin DOMAIN support_result
    /\ Get(support_result, "customer_response", PyNone) = "reply"
    /\ answer.kind = "requires_more"
    /\ answer.body = "billing"

\* the query carries a customer id and a new e-mail address and is classified
\* update_email_history
UpdateHistoryQuery ==
    /\ _classify_query(query) = "update_email_history"
    /\ TruthyInt(_extract_customer_id(query))
    /\ Truthy(_extract_email(query))

\* C24 as claimed: for such a query Support is not invoked before the update has
\* been performed and the Data step has completed: the Router awaits Support only
\* after the update-then-history brief has returned, and the workflow enters the
\* support node only after the Data agent has called update_customer without error.
C24_UpdateThenHistoryThenSupport ==
    UpdateHistoryQuery =>
        /\ (RouterFlow /\ pc = "support") =>
                /\ dataResults >= 1
                /\ task.op = "update_customer+get_customer_history"
        /\ (GraphFlow /\ node = "support") =>
                /\ [agent |-> "data", tool |-> "update_customer"] \in toolCalls
                /\ state.error = ""

\* a specialist call is running: the Router awaits the answer to a prompt
Awaiting == RouterFlow /\ pc \in {"data", "support"}

\* the _invalid reason the running call's validator gives for a response
ReasonFor(p, text) ==
    IF p = "data"
    THEN Get(_validate_customer_payload(_parse_json(text)), "_invalid", "")
    ELSE Get(_validate_support_payload(_parse_json(text), TRUE), "_invalid", "")

C25_Step ==
    (Awaiting /\ pc' = pc) =>
        /\ attempt' = attempt + 1
        /\ reminder' = ReasonFor(pc, last_text')
        /\ reminder' # ""
        /\ <<task', context_payload', hint', dialog_cid'>>
                = <<task, context_payload, hint, dialog_cid>>

C25_FirstAttempt == Awaiting' /\ attempt' = 0 => reminder' = ""

\* C25: the first prompt of a specialist call has no reminder; the prompt of each
\* later attempt has as reminder the reason the validator gave for the response to
\* the attempt just before it, and the same instructions as that attempt.
C25_ReminderIsLatestReason == [][C25_Step /\ C25_FirstAttempt]_vars

\* the third Data attempt, reminded of a missing key after an earlier response
C25_Witness ==
    /\ Awaiting /\ pc = "data"
    /\ attempt = 2
    /\ reminder = "Missing keys from Customer Data payload: handoff_summary"
    /\ last_text = JsonText([context_payload |-> "ctxA"])

\* what the object leaves out: the flag, the type of the context it requires, or
\* the reply it owes when it requires none
OmitsFlag(p) == "requires_context" \notin DOMAIN p
OmitsType(p) ==
    /\ "requires_context" \in DOMAIN p /\ Truthy(p["requires_context"])
    /\ ~Truthy(Get(p, "context_type", PyNone))
OmitsReply(p) ==
    /\ "requires_context" \in DOMAIN p /\ ~Truthy(p["requires_context"])
    /\ "customer_response" \notin DOMAIN p

\* C26: the lenient Support validator never returns _invalid; from a non-empty
\* object it returns a payload that satisfies the Support invariant, with
\* requires_context defaulted to true, context_type to "profile", and
\* customer_response synthesized; the strict validator answers each of these
\* omissions with an _invalid reason and nothing else.
C26_LenientFillsStrictRefuses ==
    (Validated /\ role # "data") =>
        IF role = "support"
        THEN /\ "_invalid" \notin DOMAIN validated
             /\ parsed # EmptyDict =>
                    /\ WellFormedSupport(validated)
                    /\ OmitsFlag(parsed) =>
                            /\ validated["requires_context"] = PyTrue
                            /\ validated["context_type"] =
                                    IF Truthy(Get(parsed, "context_type", PyNone))
                                    THEN parsed["context_type"] ELSE "profile"
                    /\ OmitsType(parsed) => validated["context_type"] = "profile"
                    /\ OmitsReply(parsed) =>
                            validated["customer_response"] = "<json.dumps(payload)>"
        ELSE (parsed = EmptyDict \/ OmitsFlag(parsed) \/ OmitsType(parsed) \/ OmitsReply(parsed))
                => /\ DOMAIN validated = {"_invalid"}
                   /\ IsInvalid(validated)

\* a lenient validation of an object that has neither flag nor type
C26_Witness ==
    /\ Validated /\ role = "support"
    /\ parsed = [notes_for_router |-> "note"]
    /\ validated = [notes_for_router |-> "note", requires_context |-> PyTrue,
                    context_type |-> "profile"]

\* how often call c occurs in the sequence cs
Count(cs, c) == Cardinality({i \in DOMAIN cs : cs[i] = c})

C27_Step ==
    (GraphFlow /\ node \in {"data", "support"} /\ node' # node) =>
        LET me == node
            requested == SelectSeq(calls', LAMBDA c : c # "get_customer_history")
            modelRaised == /\ state'.error = "Gemini API Error"
                           /\ state'.last_output = state.last_output
        IN  /\ Count(calls', "generate_content") <= 2
            /\ Count(calls', "_invoke_mcp_tool") <= 1
            /\ requested \in {<<"generate_content">>,
                              <<"generate_content", "_invoke_mcp_tool">>,
                              <<"generate_content", "_invoke_mcp_tool", "generate_content">>}
            /\ Len(requested) = 1 =>
                    \/ modelRaised
                    \/ /\ state'.last_output.src = me
                       /\ state'.last_output.kind \in {"text", "none"}
            /\ Len(requested) = 2 =>
                    /\ state'.error = "MCP tool failed"
                    /\ state'.last_output.src = me
                    /\ state'.last_output.kind = "tool_error"
            /\ Len(requested) = 3 =>
                    \/ modelRaised
                    \/ /\ state'.last_output.src = me
                       /\ state'.last_output.kind \in {"text", "tool_result"}
            /\ node' \in {"support", "END"}

\* C27: one run of a specialist calls the model at most twice and invokes at most
\* one tool the model asked for; without a request the output is the first text;
\* with one, the tool is invoked and the output is the second text, or the tool
\* result when that text is empty; when the invocation fails the output is the
\* error text, the model is not called again, and the node returns normally.
C27_OneActOneTool == [][C27_Step]_vars

\* the Data agent's tool invocation failed: two calls, the error text as output
C27_Witness ==
    /\ GraphFlow
    /\ calls = <<"generate_content", "_invoke_mcp_tool">>
    /\ state.last_output = Output("data", "tool_error", "")
    /\ state.error = "MCP tool failed"

\* the flow ended in the data node with an answer the node built itself
EndedInData ==
    /\ GraphFlow
    /\ node = "END"
    /\ state.final_answer.prefix # ""

\* C28: on the pure-data route the Data step's output counts as a tool error only
\* when it begins with "ERROR" or the agent's error flag is set: the flow then
\* ends with "System Error during Data Fetch: ...", and any other output ends it
\* with "Data Retrieval Complete: <output>".
C28_ErrorOnlyByPrefix ==
    EndedInData =>
        /\ state.final_answer.body = state.last_output
        /\ IF state.error # "" \/ state.last_output.err = "prefix"
           THEN state.final_answer.prefix = "System Error during Data Fetch: "
           ELSE state.final_answer.prefix = "Data Retrieval Complete: "

\* one of the billing keywords occurs in the query
BillingKeyword(q) ==
    \/ Contains(q, <<"cancel">>) \/ Contains(q, <<"refund">>)
    \/ Contains(q, <<"charged", "twice">>) \/ Contains(q, <<"billing">>)

\* C29: a query with a billing keyword (cancel, refund, charged twice, billing)
\* that matches none of the three earlier rules and has no "customer id" phrase
\* is still classified billing_escalation, by the rule without the id gate.
C29_BareBillingStillEscalates ==
    (/\ Classified
     /\ BillingKeyword(query)
     /\ MatchingRules(query) \cap {1, 2, 3} = {}
     /\ ~Contains(query, <<"customer", "id">>))
        => scenario = "billing_escalation"

\* the context types Support may name
ContextTypes == {"billing", "tickets", "history", "profile", "orders"}

C30_Step ==
    (RouterFlow /\ pc = "support" /\ pc' = "data") =>
        LET requested == support_result'["context_type"] IN
        /\ TruthyInt(dialog_cid)
        /\ task'.cid = dialog_cid
        /\ requested \in ContextTypes
        /\ CASE requested \in {"billing", "tickets", "history"} ->
                    task'.op = "get_customer_history"
             [] requested = "profile" -> task'.op = "get_customer"
             [] OTHER -> task'.op = "details" /\ task'.arg = requested
        /\ \A t \in {"billing", "tickets", "history"} :
                ContextTask(t, dialog_cid) = task' <=> task'.op = "get_customer_history"

\* C30: when Support asks for more context and the customer id is known, the Data
\* task follows the requested type: billing, tickets and history give the same
\* get_customer_history fetch, profile gives the get_customer fetch, any other type
\* a request for "<type> details"; each task names the known customer id.
C30_ContextTaskByType == [][C30_Step]_vars

\* Support asked for a type outside the four named ones
C30_Witness ==
    /\ RouterFlow /\ pc = "data"
    /\ supportRounds >= 1
    /\ Truthy(Get(support_result, "requires_context", PyNone))
    /\ Get(support_result, "context_type", PyNone) = "orders"
    /\ task = [op |-> "details", cid |-> dialog_cid, arg |-> "orders"]

\* Support asked for the profile
C30_WitnessProfile ==
    /\ RouterFlow /\ pc = "data"
    /\ supportRounds >= 1
    /\ Get(support_result, "context_type", PyNone) = "profile"
    /\ task.op = "get_customer"

\* Support asked for the history
C30_WitnessHistory ==
    /\ RouterFlow /\ pc = "data"
    /\ supportRounds >= 1
    /\ Get(support_result, "context_type", PyNone) = "history"
    /\ task.op = "get_customer_history"

\* the read operations of the store
ReadTools == {"get_customer", "list_customers", "get_customer_history",
              "get_high_priority_tickets_by_ids",
              "list_active_customers_with_open_tickets"}

C31_Step ==
    (McpFlow /\ request'.method = "tools/call") =>
        /\ db' # db => request'.name \in {"update_customer", "create_ticket"}
        /\ (request'.name \in ReadTools /\ response'.kind = "result") =>
            /\ db' = db
            /\ db_text' = CallStore(request'.name, request'.arguments, db).text
            /\ db_text' = CallStore(request'.name, request'.arguments, db').text
            /\ response'.result = format_db_result(db_text')

\* C31: get_customer, list_customers, get_customer_history,
\* get_high_priority_tickets_by_ids and list_active_customers_with_open_tickets
\* leave the store as it was and answer from their arguments and the store alone
\* (the same read on the store it leaves gives the same answer); the store changes
\* only in update_customer and create_ticket.
C31_ReadsLeaveStoreAlone == [][C31_Step]_vars

\* a history read that returned the rows of a store holding a ticket
C31_Witness ==
    /\ Dispatched
    /\ request.name = "get_customer_history"
    /\ db.tickets # <<>>
    /\ db_text.json /\ db_text.rows # <<>>

\* thread t has returned
Returns(t) == flow = "race" /\ worker[t].pc = "done"

\* C32: when two tool calls are handled at once on the one connection and cursor,
\* each call's reply comes from its own statement: create_ticket reports the id of
\* the row it inserted, update_customer the outcome of its own UPDATE, a read the
\* rows of its own query, in every interleaving.
C32_ReplyFromOwnStatement ==
    \A t \in {1, 2} : Returns(t) => worker[t].reply = worker[t].own

\* the columns update_customer may write
AllowedFields == {"name", "email", "phone", "status"}

\* the server has just dispatched an update_customer call
UpdateCall(message) ==
    /\ message.name = "update_customer"
    /\ "customer_id" \in DOMAIN message.arguments

C33_Step ==
    (McpFlow /\ UpdateCall(request')) =>
        LET cid == request'.arguments["customer_id"]
            supplied == DOMAIN request'.arguments \ {"customer_id"}
            allowed == supplied \cap AllowedFields
        IN  /\ db'.tickets = db.tickets
            /\ DOMAIN db'.customers = DOMAIN db.customers
            /\ IF cid \notin DOMAIN db.customers \/ allowed = {}
               THEN /\ IsErrorText(db_text')
                    /\ response'.result = [success |-> PyFalse, error |-> db_text']
                    /\ db'.customers = db.customers
               ELSE /\ db_text'.head = "SUCCESS:"
                    /\ response'.result.success = PyTrue
                    /\ \A c \in DOMAIN db.customers \ {cid} :
                            db'.customers[c] = db.customers[c]
                    /\ DOMAIN db'.customers[cid] = DOMAIN db.customers[cid]
                    /\ \A k \in DOMAIN db.customers[cid] :
                            db'.customers[cid][k] =
                                IF k \in allowed THEN request'.arguments[k]
                                ELSE db.customers[cid][k]

\* C33: update_customer answers with an error and changes no customer row when the
\* customer_id does not exist or no supplied field is one of name, email, phone,
\* status; otherwise it changes only the supplied allowed fields of that one row
\* and ignores every other supplied key.
C33_UpdateOnlyAllowedFields == [][C33_Step]_vars

\* an update of customer 1 that carried an allowed field and a key to ignore
C33_Witness ==
    /\ Dispatched /\ UpdateCall(request)
    /\ {"email", "nickname"} \subseteq DOMAIN request.arguments
    /\ db_text.head = "SUCCESS:"
    /\ db.customers[1].email = "new@x"
    /\ DOMAIN db.customers[1] = DOMAIN SeedCustomers[1]

\* an update that supplied only a key to ignore
C33_WitnessNoField ==
    /\ Dispatched /\ UpdateCall(request)
    /\ DOMAIN request.arguments = {"customer_id", "nickname"}
    /\ IsErrorText(db_text)
    /\ db.customers = SeedCustomers

\* _call_support returns in this step
SupportReturning == RouterFlow /\ pc = "support" /\ pc' \in {"done", "data"}

C34_Step ==
    SupportReturning =>
        /\ support_result' # EmptyDict
        /\ Truthy(Get(support_result', "requires_context", PyNone)) =>
                Truthy(Get(support_result', "context_type", PyNone))
        /\ pc' = "done" =>
                /\ answer' = _format_support_response(support_result')
                /\ \/ ~Truthy(Get(support_result', "requires_context", PyNone))
                   \/ ~TruthyInt(dialog_cid)
        /\ answer'.kind # "no_data"
        /\ answer'.body # "Support agent returned no data."

\* C34: _call_support never returns an empty payload, nor one that requires
\* context without naming its type; so _support_dialog leaves its loop only through
\* the final-answer exit or the unknown-customer exit, and the answer "Support
\* agent returned no data." is never given.
C34_SupportNeverReturnsNothing == [][C34_Step]_vars

\* three responses without JSON, the last one empty: the fallback wraps the
\* replacement text and the dialog ends on it
C34_Witness ==
    /\ SupportJustReturned
    /\ pc = "done"
    /\ IsSupportFallback(support_result)
    /\ support_result # EmptyDict
    /\ Get(support_result, "customer_response", "") = "Support response unavailable."
    /\ answer.kind = "final"

\* a Data payload without the two fields the Router is said not to look at
Erase(d) == [k \in DOMAIN d \ {"recommended_next_agent", "context_type"} |-> d[k]]

\* the Data specialist answers in this step (its transport did not fail)
DataAnswers == RouterFlow /\ pc = "data" /\ pc' # "raised"

\* the parsed response holds something besides the two fields, or nothing at all
MoreThanNextAgent(d) == Erase(d) # EmptyDict \/ d = EmptyDict

\* What the Router does on a Data response is given by expressions over the
\* response without the two fields: the retry and its reminder, the hand-over to
\* Support, and the context the Support brief embeds.
IndependentOfNextAgent ==
    DataAnswers =>
        /\ pc' \in {"data", "support"}
        /\ dialog_cid' = dialog_cid /\ hint' = hint /\ task' = task /\ answer' = answer
        /\ pc' = "data" =>
            /\ attempt' = attempt + 1
            /\ context_payload' = context_payload
            /\ IsInvalid(_validate_customer_payload(Erase(_parse_json(last_text'))))
            /\ MoreThanNextAgent(_parse_json(last_text')) =>
                    reminder' =
                        _validate_customer_payload(Erase(_parse_json(last_text')))["_invalid"]
        /\ pc' = "support" =>
            /\ attempt' = 0 /\ reminder' = ""
            /\ ~IsDataFallback(data_result') =>
                /\ ~IsInvalid(_validate_customer_payload(Erase(data_result')))
                /\ context_payload' = Erase(data_result')["context_payload"]
                /\ SupportBrief' =
                        _build_support_prompt(Erase(data_result')["context_payload"], hint)

\* the reminder after an invalid response is the same whatever the response said
\* about the next agent
ReminderIndependentOfNextAgent ==
    (DataAnswers /\ pc' = "data") =>
        reminder' = _validate_customer_payload(Erase(_parse_json(last_text')))["_invalid"]

\* the fallback after three invalid responses wraps the same text whatever the
\* response said about the next agent
FallbackIndependentOfNextAgent ==
    (DataAnswers /\ pc' = "support" /\ IsDataFallback(data_result')) =>
        context_payload' = RawTextPayload(EmptyText)

\* C35: which specialists the Router invokes, in which order and with which briefs,
\* and its final answer, do not depend on the recommended_next_agent (or
\* context_type) field of the Data responses.
C35_IgnoresNextAgent ==
    [][/\ IndependentOfNextAgent
       /\ ReminderIndependentOfNextAgent
       /\ FallbackIndependentOfNextAgent]_vars

\* C35, for the responses the Router accepts and for the retries after a response
\* that holds more than the two fields: an object of nothing but these fields is
\* reported as lacking keys where the empty object is reported as non-JSON, and the
\* fallback after a third invalid response hands the whole last response to Support.
C35_IgnoresNextAgentOfValidResponses == [][IndependentOfNextAgent]_vars

\* a valid Data response recommended Support; the Router went on to the Support
\* brief with its context_payload as for any other recommendation
C35_Witness ==
    /\ RouterFlow /\ pc = "support"
    /\ dataResults >= 1 /\ supportSent = 0
    /\ ~IsDataFallback(data_result)
    /\ Get(data_result, "recommended_next_agent", PyNone) = "support"
    /\ context_payload = "ctxA"

\* the place of a node in the order router, data, support, END
Rank(n) == CASE n = "router" -> 0 [] n = "data" -> 1 [] n = "support" -> 2 [] OTHER -> 3

C36_Step ==
    GraphFlow =>
        /\ Rank(node') > Rank(node)
        /\ node = "router" =>
            /\ state'.next_agent \in {"data_agent", "data_agent_then_support", "support_agent"}
            /\ node' \in {"data", "support"}
        /\ node = "data" =>
            /\ state'.next_agent \in {"support_agent", "END"}
            /\ node' = "support" <=> state'.next_agent = "support_agent"
        /\ node = "support" =>
            /\ state'.next_agent = "END"
            /\ node' = "END"

\* C36: the workflow runs the router, then at most once the data node, then at most
\* once the support node, and ends: at most three node executions, each node at
\* most once.  The router selects data_agent, data_agent_then_support or
\* support_agent, the data node leaves support_agent or END, and nothing runs after
\* the support node.
C36_ThreeNodesInOrder == [][C36_Step]_vars

\* a flow that ran all three nodes: the support node answered on the task the data
\* node handed over
C36_Witness ==
    /\ GraphFlow /\ node = "END"
    /\ state.last_output.src = "support"
    /\ state.task = "get_customer_history and summarize"
    /\ TruthyInt(state.history_customer_id)

C37_Step ==
    (GraphFlow /\ node = "support" /\ node' = "END") =>
        /\ state'.final_answer.prefix = ""
        /\ state'.final_answer.body = state'.last_output
        /\ state'.final_answer.body.src = "support"
        /\ state'.final_answer.body # state.last_output

\* C37: the final_answer the support node sets is text the Support agent produced
\* in that step, never the output the previous agent left (the Data agent's, or the
\* Router's decision text), also when the Support agent's model call or tool call
\* fails.
C37_FinalAnswerIsSupportsOwn == [][C37_Step]_vars

=============================================================================
